---- MODULE Spec2Model ----
(***************************************************************************)
(* Filter-preset derivation engine of the dashboard (src/lib/preset-utils.ts).*)
(*                                                                         *)
(* The engine is a set of synchronous functions over one dataset.  The     *)
(* state is the dataset held by the caller and the last engine call with   *)
(* its arguments and its return value.  Each action is one complete call.  *)
(* Two further parts stand beside it: builder invocations taken statement  *)
(* by statement (invocations), and the dashboard page that hosts the       *)
(* engine (page, src/app/page.tsx).                                        *)
(*                                                                         *)
(* JS values are represented as follows.                                   *)
(*   - a nullable dataset: a record with the flag isNull;                  *)
(*   - the path data.data.value.geography_segment_matrix: the field        *)
(*     matrixPath says how far the path exists and whether its end is an   *)
(*     array; records holds the array;                                     *)
(*   - a number | undefined | null | NaN (DataRecord.cagr): a record       *)
(*     [kind, val]; val is read only when kind = "number";                 *)
(*   - a Map and a plain object: a sequence of [key, val] entries in       *)
(*     insertion order, which is the order JS enumerates them in;          *)
(*   - numbers are integers; a mean is kept as the pair [sum, count] and   *)
(*     two means are compared by cross-multiplication, which is the sign   *)
(*     of the difference of the quotients.                                 *)
(***************************************************************************)
EXTENDS Integers, Sequences, FiniteSets, TLC

VARIABLES
    data,   \* the dataset the caller holds (ComparisonData | null)
    fn,     \* name of the last engine function called, "none" before any
    args,   \* its arguments other than the dataset
    ret,    \* its return value
    history, \* observer: per builder, the first result it returned and
             \* whether another engine call has returned since
    outcome, \* how the last call ended: "returned", "thrown" (a TypeError
             \* left the function), "none" before any call
    invocations, \* per builder invocation in progress: its position in the
                 \* function body and its local variables
    page    \* DashboardPage (src/app/page.tsx): the store fields it reads,
            \* its component state and the dependencies its effects last ran on

vars == <<data, fn, args, ret, history, outcome, invocations, page>>

engineVars == <<data, fn, args, ret, history, outcome, invocations>>

(***************************************************************************)
(* Bounds of the input space.                                              *)
(***************************************************************************)
MaxRecords == 3

MaxTopN == 3

MaxValue == 1

MaxChildren == 2

MaxParents == 2

(***************************************************************************)
(* Program constants.                                                      *)
(***************************************************************************)
DefaultYear == 2024

\* topN: number = 2 of getTopRegionsByCAGR
DefaultTopNRegions == 2

\* topN: number = 5 of getTopCountriesByCAGR
DefaultTopNCountries == 5

GLOBAL == "Global"

(***************************************************************************)
(* Generic helpers for JS arrays and insertion-ordered maps.               *)
(***************************************************************************)
Min(a, b) == IF a <= b THEN a ELSE b

\* Array.prototype.slice(0, n) for an integer n >= 0.
ArraySliceFromZero(arr, n) == SubSeq(arr, 1, Min(n, Len(arr)))

\* Array.prototype.map(e => e.key) / map(([k]) => k)
Keys(entries) == [i \in 1..Len(entries) |-> entries[i].key]

Range(seq) == {seq[i] : i \in 1..Len(seq)}

MapHas(m, k) == \E i \in 1..Len(m) : m[i].key = k

\* Map.prototype.get(k) || dflt  (the stored values modelled here are either
\* numbers, for which 0 || 0 = 0, or arrays, which are truthy)
MapGetOr(m, k, dflt) ==
    IF MapHas(m, k)
    THEN LET i == CHOOSE j \in 1..Len(m) : m[j].key = k IN m[i].val
    ELSE dflt

\* Map.prototype.set(k, v): an existing key keeps its place, a new key is
\* appended.
MapSet(m, k, v) ==
    IF MapHas(m, k)
    THEN [i \in 1..Len(m) |-> IF m[i].key = k THEN [key |-> k, val |-> v] ELSE m[i]]
    ELSE Append(m, [key |-> k, val |-> v])

RECURSIVE SeqSum(_)
\* Array.prototype.reduce((a, b) => a + b, 0)
SeqSum(s) == IF s = <<>> THEN 0 ELSE Head(s) + SeqSum(Tail(s))

(***************************************************************************)
(* DataRecord fields.                                                      *)
(***************************************************************************)
Num(n) == [kind |-> "number", val |-> n]

Undefined == [kind |-> "undefined", val |-> 0]

Null == [kind |-> "null", val |-> 0]

NaN == [kind |-> "NaN", val |-> 0]

\* record.time_series?.[year] || 0
TimeSeriesValueOrZero(record, year) ==
    IF year \in DOMAIN record.time_series THEN record.time_series[year] ELSE 0

\* record.cagr !== undefined && record.cagr !== null && !isNaN(record.cagr)
HasValidCagr(record) ==
    /\ record.cagr.kind # "undefined"
    /\ record.cagr.kind # "null"
    /\ record.cagr.kind # "NaN"

\* faulty variant of HasRecords: the matrix is not tested to be an array
HasRecords_NoArrayTest(d) ==
    /\ ~d.isNull
    /\ d.matrixPath \notin {"noData", "noValue", "noMatrix"}
    /\ d.records # <<>>

\* the guards shared by the three ranking functions: the dataset is there,
\* the matrix path exists, and its end is a non-empty array
HasRecords(d) ==
    /\ ~d.isNull
    /\ d.matrixPath \notin {"noData", "noValue", "noMatrix"}
    /\ d.matrixPath = "array"
    /\ d.records # <<>>

(***************************************************************************)
(* getTopRegionsByMarketValue                                              *)
(***************************************************************************)
RECURSIVE geographyTotals_KeepGlobal(_, _, _)
\* faulty variant of geographyTotals: the global level is not skipped
geographyTotals_KeepGlobal(records, year, totals) ==
    IF records = <<>> THEN totals
    ELSE LET record == Head(records)
             geography == record.geography
             value == TimeSeriesValueOrZero(record, year)
             currentTotal == MapGetOr(totals, geography, 0)
         IN geographyTotals_KeepGlobal(Tail(records), year,
                MapSet(totals, geography, currentTotal + value))

RECURSIVE geographyTotals_LastWins(_, _, _)
\* faulty variant of geographyTotals: the value replaces the running total
geographyTotals_LastWins(records, year, totals) ==
    IF records = <<>> THEN totals
    ELSE LET record == Head(records)
             geography == record.geography
             value == TimeSeriesValueOrZero(record, year)
         IN geographyTotals_LastWins(Tail(records), year,
                IF geography = GLOBAL THEN totals
                ELSE MapSet(totals, geography, value))

RECURSIVE geographyTotals(_, _, _)
\* records.forEach(...) of getTopRegionsByMarketValue, started with the empty Map
geographyTotals(records, year, totals) ==
    IF records = <<>> THEN totals
    ELSE LET record == Head(records)
             geography == record.geography
             value == TimeSeriesValueOrZero(record, year)
             currentTotal == MapGetOr(totals, geography, 0)
         IN geographyTotals(Tail(records), year,
                IF geography = GLOBAL THEN totals
                ELSE MapSet(totals, geography, currentTotal + value))

\* the comparator (a, b) => b[1] - a[1]
CompareTotals(a, b) == b.val - a.val

RECURSIVE InsertByTotal_Unstable(_, _)
\* faulty variant of InsertByTotal: e goes before the elements it ties with
InsertByTotal_Unstable(sorted, e) ==
    IF sorted = <<>> THEN <<e>>
    ELSE IF CompareTotals(e, Head(sorted)) <= 0
         THEN <<e>> \o sorted
         ELSE <<Head(sorted)>> \o InsertByTotal_Unstable(Tail(sorted), e)

RECURSIVE InsertByTotal(_, _)
\* one step of a stable sort: e goes before the first element the comparator
\* orders after it, hence after every element it compares equal to
InsertByTotal(sorted, e) ==
    IF sorted = <<>> THEN <<e>>
    ELSE IF CompareTotals(e, Head(sorted)) < 0
         THEN <<e>> \o sorted
         ELSE <<Head(sorted)>> \o InsertByTotal(Tail(sorted), e)

RECURSIVE SortByTotal(_, _)
\* Array.prototype.sort((a, b) => b[1] - a[1]): stable (ECMAScript 2019)
SortByTotal(entries, sorted) ==
    IF entries = <<>> THEN sorted
    ELSE SortByTotal(Tail(entries), InsertByTotal(sorted, Head(entries)))

\* faulty variant of getTopRegionsByMarketValue: the result is not cut to topN
getTopRegionsByMarketValue_NoSlice(d, year, topN) ==
    IF ~HasRecords(d) THEN <<>>
    ELSE Keys(SortByTotal(geographyTotals(d.records, year, <<>>), <<>>))

getTopRegionsByMarketValue(d, year, topN) ==
    IF ~HasRecords(d) THEN <<>>
    ELSE Keys(ArraySliceFromZero(
                 SortByTotal(geographyTotals(d.records, year, <<>>), <<>>), topN))

(***************************************************************************)
(* getTopRegionsByCAGR                                                     *)
(***************************************************************************)
RECURSIVE geographyCAGRs_Regions_InvalidAsZero(_, _)
\* faulty variant of geographyCAGRs_Regions: an invalid cagr counts as 0
geographyCAGRs_Regions_InvalidAsZero(records, cagrsByGeo) ==
    IF records = <<>> THEN cagrsByGeo
    ELSE LET record == Head(records)
             geography == record.geography
             cagrs == MapGetOr(cagrsByGeo, geography, <<>>)
         IN geographyCAGRs_Regions_InvalidAsZero(Tail(records),
                IF geography = GLOBAL THEN cagrsByGeo
                ELSE MapSet(cagrsByGeo, geography,
                            Append(cagrs, IF HasValidCagr(record)
                                          THEN record.cagr.val ELSE 0)))

RECURSIVE geographyCAGRs_Regions(_, _)
\* records.forEach(...) of getTopRegionsByCAGR, started with the empty Map
geographyCAGRs_Regions(records, cagrsByGeo) ==
    IF records = <<>> THEN cagrsByGeo
    ELSE LET record == Head(records)
             geography == record.geography
             cagrs == MapGetOr(cagrsByGeo, geography, <<>>)
         IN geographyCAGRs_Regions(Tail(records),
                IF geography = GLOBAL THEN cagrsByGeo
                ELSE IF HasValidCagr(record)
                     THEN MapSet(cagrsByGeo, geography, Append(cagrs, record.cagr.val))
                     ELSE cagrsByGeo)

\* faulty variant of avgCAGRs_Regions: the sum is not divided by the count
avgCAGRs_Regions_SumOnly(cagrsByGeo) ==
    [i \in 1..Len(cagrsByGeo) |->
        [geography |-> cagrsByGeo[i].key,
         avgCAGR |-> [sum |-> SeqSum(cagrsByGeo[i].val), count |-> 1]]]

\* Array.from(geographyCAGRs.entries()).map(...): the mean sum / length
avgCAGRs_Regions(cagrsByGeo) ==
    [i \in 1..Len(cagrsByGeo) |->
        [geography |-> cagrsByGeo[i].key,
         avgCAGR |-> [sum |-> SeqSum(cagrsByGeo[i].val),
                      count |-> Len(cagrsByGeo[i].val)]]]

\* the sign of the comparator (a, b) => b.avgCAGR - a.avgCAGR
CompareAvgCAGR_Regions(a, b) ==
    b.avgCAGR.sum * a.avgCAGR.count - a.avgCAGR.sum * b.avgCAGR.count

RECURSIVE InsertByAvgCAGR_Regions_Unstable(_, _)
\* faulty variant of InsertByAvgCAGR_Regions: e goes before the elements it
\* ties with
InsertByAvgCAGR_Regions_Unstable(sorted, e) ==
    IF sorted = <<>> THEN <<e>>
    ELSE IF CompareAvgCAGR_Regions(e, Head(sorted)) <= 0
         THEN <<e>> \o sorted
         ELSE <<Head(sorted)>> \o InsertByAvgCAGR_Regions_Unstable(Tail(sorted), e)

RECURSIVE InsertByAvgCAGR_Regions(_, _)
InsertByAvgCAGR_Regions(sorted, e) ==
    IF sorted = <<>> THEN <<e>>
    ELSE IF CompareAvgCAGR_Regions(e, Head(sorted)) < 0
         THEN <<e>> \o sorted
         ELSE <<Head(sorted)>> \o InsertByAvgCAGR_Regions(Tail(sorted), e)

RECURSIVE SortByAvgCAGR_Regions(_, _)
\* Array.prototype.sort((a, b) => b.avgCAGR - a.avgCAGR): stable
SortByAvgCAGR_Regions(items, sorted) ==
    IF items = <<>> THEN sorted
    ELSE SortByAvgCAGR_Regions(Tail(items), InsertByAvgCAGR_Regions(sorted, Head(items)))

Geographies(items) == [i \in 1..Len(items) |-> items[i].geography]

getTopRegionsByCAGR(d, topN) ==
    IF ~HasRecords(d) THEN <<>>
    ELSE LET geographyCAGRs == geographyCAGRs_Regions(d.records, <<>>)
         IN IF Len(geographyCAGRs) = 0 THEN <<>>
            ELSE Geographies(ArraySliceFromZero(
                     SortByAvgCAGR_Regions(avgCAGRs_Regions(geographyCAGRs), <<>>), topN))

(***************************************************************************)
(* getTopCountriesByCAGR                                                   *)
(***************************************************************************)
RECURSIVE geographyCAGRs_Countries_KeepGlobal(_, _)
\* faulty variant of geographyCAGRs_Countries: the global level is not skipped
geographyCAGRs_Countries_KeepGlobal(records, cagrsByGeo) ==
    IF records = <<>> THEN cagrsByGeo
    ELSE LET record == Head(records)
             geography == record.geography
             cagrs == MapGetOr(cagrsByGeo, geography, <<>>)
         IN geographyCAGRs_Countries_KeepGlobal(Tail(records),
                IF HasValidCagr(record)
                THEN MapSet(cagrsByGeo, geography, Append(cagrs, record.cagr.val))
                ELSE cagrsByGeo)

RECURSIVE geographyCAGRs_Countries(_, _)
\* records.forEach(...) of getTopCountriesByCAGR, started with the empty Map
geographyCAGRs_Countries(records, cagrsByGeo) ==
    IF records = <<>> THEN cagrsByGeo
    ELSE LET record == Head(records)
             geography == record.geography
             cagrs == MapGetOr(cagrsByGeo, geography, <<>>)
         IN geographyCAGRs_Countries(Tail(records),
                IF geography = GLOBAL THEN cagrsByGeo
                ELSE IF HasValidCagr(record)
                     THEN MapSet(cagrsByGeo, geography, Append(cagrs, record.cagr.val))
                     ELSE cagrsByGeo)

avgCAGRs_Countries(cagrsByGeo) ==
    [i \in 1..Len(cagrsByGeo) |->
        [geography |-> cagrsByGeo[i].key,
         avgCAGR |-> [sum |-> SeqSum(cagrsByGeo[i].val),
                      count |-> Len(cagrsByGeo[i].val)]]]

CompareAvgCAGR_Countries(a, b) ==
    b.avgCAGR.sum * a.avgCAGR.count - a.avgCAGR.sum * b.avgCAGR.count

RECURSIVE InsertByAvgCAGR_Countries(_, _)
InsertByAvgCAGR_Countries(sorted, e) ==
    IF sorted = <<>> THEN <<e>>
    ELSE IF CompareAvgCAGR_Countries(e, Head(sorted)) < 0
         THEN <<e>> \o sorted
         ELSE <<Head(sorted)>> \o InsertByAvgCAGR_Countries(Tail(sorted), e)

RECURSIVE SortByAvgCAGR_Countries(_, _)
SortByAvgCAGR_Countries(items, sorted) ==
    IF items = <<>> THEN sorted
    ELSE SortByAvgCAGR_Countries(Tail(items),
                                 InsertByAvgCAGR_Countries(sorted, Head(items)))

getTopCountriesByCAGR(d, topN) ==
    IF ~HasRecords(d) THEN <<>>
    ELSE LET geographyCAGRs == geographyCAGRs_Countries(d.records, <<>>)
         IN IF Len(geographyCAGRs) = 0 THEN <<>>
            ELSE Geographies(ArraySliceFromZero(
                     SortByAvgCAGR_Countries(avgCAGRs_Countries(geographyCAGRs), <<>>), topN))

(***************************************************************************)
(* getFirstLevelSegments                                                   *)
(***************************************************************************)
\* UTF-16 code units of the segment names that occur in the inputs
CodeUnits ==
    [name \in {"W", "X", "XY", "Y", "Z", "a"} |->
        CASE name = "W" -> <<87>>
          [] name = "X" -> <<88>>
          [] name = "XY" -> <<88, 89>>
          [] name = "Y" -> <<89>>
          [] name = "Z" -> <<90>>
          [] name = "a" -> <<97>>]

RECURSIVE CodeUnitsLess(_, _)
\* x < y for strings: the first differing code unit decides, a proper prefix
\* is smaller
CodeUnitsLess(x, y) ==
    IF y = <<>> THEN FALSE
    ELSE IF x = <<>> THEN TRUE
    ELSE IF Head(x) # Head(y) THEN Head(x) < Head(y)
    ELSE CodeUnitsLess(Tail(x), Tail(y))

StringLess(x, y) == CodeUnitsLess(CodeUnits[x], CodeUnits[y])

RECURSIVE InsertString(_, _)
InsertString(sorted, e) ==
    IF sorted = <<>> THEN <<e>>
    ELSE IF StringLess(e, Head(sorted))
         THEN <<e>> \o sorted
         ELSE <<Head(sorted)>> \o InsertString(Tail(sorted), e)

RECURSIVE SortStrings(_, _)
SortStrings(arr, sorted) ==
    IF arr = <<>> THEN sorted
    ELSE SortStrings(Tail(arr), InsertString(sorted, Head(arr)))

\* faulty variant of ArraySortDefault: the array is left in push order
ArraySortDefault_Unsorted(arr) == arr

\* Array.prototype.sort() with no comparator: ascending by code units
ArraySortDefault(arr) == SortStrings(arr, <<>>)

\* segmentDimension.hierarchy || {}
HierarchyOf(segmentDimension) ==
    IF segmentDimension.hasHierarchy THEN segmentDimension.hierarchy ELSE <<>>

\* segmentDimension.items || []
ItemsOf(segmentDimension) ==
    IF segmentDimension.hasItems THEN segmentDimension.items ELSE <<>>

\* faulty variant of allChildren: only the first parent's children are collected
allChildren_FirstParentOnly(hierarchy) ==
    IF hierarchy = <<>> THEN {} ELSE Range(hierarchy[1].val)

\* new Set(Object.values(hierarchy).flat())
allChildren(hierarchy) == UNION {Range(hierarchy[i].val) : i \in 1..Len(hierarchy)}

\* Object.keys(hierarchy).forEach(parent => ...): the parents pushed, in key order
firstLevelParents(hierarchy) ==
    SelectSeq(Keys(hierarchy),
              LAMBDA parent : /\ parent \notin allChildren(hierarchy)
                              /\ Len(MapGetOr(hierarchy, parent, <<>>)) > 0)

\* allSegments.forEach(segment => ...): the standalone items pushed, in item order
firstLevelStandalone(hierarchy, allSegments) ==
    SelectSeq(allSegments,
              LAMBDA segment : /\ segment \notin allChildren(hierarchy)
                               /\ ~MapHas(hierarchy, segment))

\* data.dimensions.segments[segmentType] (line 87) reads a property of
\* undefined when dimensions or dimensions.segments is absent: a TypeError
getFirstLevelSegments_Throws(d, segmentType) ==
    ~d.isNull /\ d.dimensionsPath \in {"noDimensions", "noSegments"}

\* faulty variant of getFirstLevelSegments: a dimension without a hierarchy
\* gives the empty list
getFirstLevelSegments_NeedsHierarchy(d, segmentType) ==
    IF d.isNull THEN <<>>
    ELSE IF ~MapHas(d.segments, segmentType) THEN <<>>
    ELSE LET segmentDimension == MapGetOr(d.segments, segmentType, <<>>)
             hierarchy == HierarchyOf(segmentDimension)
             allSegments == ItemsOf(segmentDimension)
         IN IF ~segmentDimension.hasHierarchy THEN <<>>
            ELSE ArraySortDefault(firstLevelParents(hierarchy)
                                  \o firstLevelStandalone(hierarchy, allSegments))

getFirstLevelSegments(d, segmentType) ==
    IF d.isNull THEN <<>>
    ELSE IF ~MapHas(d.segments, segmentType) THEN <<>>
    ELSE LET segmentDimension == MapGetOr(d.segments, segmentType, <<>>)
             hierarchy == HierarchyOf(segmentDimension)
             allSegments == ItemsOf(segmentDimension)
         IN ArraySortDefault(firstLevelParents(hierarchy)
                             \o firstLevelStandalone(hierarchy, allSegments))

(***************************************************************************)
(* getFirstSegmentType: string | null is a sequence of at most one string   *)
(***************************************************************************)
\* !data.dimensions.segments (line 120) reads a property of undefined when
\* dimensions is absent: a TypeError
getFirstSegmentType_Throws(d) == ~d.isNull /\ d.dimensionsPath = "noDimensions"

getFirstSegmentType(d) ==
    IF d.isNull THEN <<>>
    ELSE IF d.dimensionsPath = "noSegments" THEN <<>>
    ELSE LET segmentTypes == Keys(d.segments)
         IN IF Len(segmentTypes) > 0 THEN <<segmentTypes[1]>> ELSE <<>>

(***************************************************************************)
(* Preset builders                                                         *)
(***************************************************************************)
\* a string is truthy unless it is empty
Truthy(optString) == optString # <<>> /\ optString[1] # ""

\* firstSegmentType ? getFirstLevelSegments(data, firstSegmentType) : []
FirstLevelSegmentsFor(d, firstSegmentType) ==
    IF Truthy(firstSegmentType)
    THEN getFirstLevelSegments(d, firstSegmentType[1])
    ELSE <<>>

\* faulty variant of NonGlobal: only a leading 'Global' is dropped
NonGlobal_LeadingOnly(allGeographies) ==
    IF allGeographies # <<>> /\ Head(allGeographies) = GLOBAL
    THEN Tail(allGeographies)
    ELSE allGeographies

\* all_geographies.filter(g => g !== 'Global')
NonGlobal(allGeographies) == SelectSeq(allGeographies, LAMBDA g : g # GLOBAL)

\* faulty variant of GeographiesOrFallback: a ranking shorter than n is filled
\* up with the listed geographies it does not hold
GeographiesOrFallback_Padded(d, ranked, n) ==
    IF Len(ranked) < n /\ d.all_geographies.present
    THEN ArraySliceFromZero(
             ranked \o SelectSeq(NonGlobal(d.all_geographies.list),
                                 LAMBDA g : g \notin Range(ranked)), n)
    ELSE ranked

\* faulty variant of GeographiesOrFallback: the list is cut before 'Global'
\* is removed
GeographiesOrFallback_SliceThenFilter(d, ranked, n) ==
    IF Len(ranked) = 0 /\ d.all_geographies.present
    THEN NonGlobal(ArraySliceFromZero(d.all_geographies.list, n))
    ELSE ranked

\* faulty variant of GeographiesOrFallback: an empty ranking is kept
GeographiesOrFallback_NoFallback(d, ranked, n) == ranked

\* the geography fallback of a builder whose target count is n
GeographiesOrFallback(d, ranked, n) ==
    IF Len(ranked) = 0 /\ d.all_geographies.present
    THEN ArraySliceFromZero(NonGlobal(d.all_geographies.list), n)
    ELSE ranked

\* the segment fallback shared by the builders
SegmentsOrFallback(d, firstLevelSegments, firstSegmentType) ==
    IF /\ Len(firstLevelSegments) = 0
       /\ Truthy(firstSegmentType)
       /\ MapHas(d.segments, firstSegmentType[1])
    THEN ArraySliceFromZero(
             ItemsOf(MapGetOr(d.segments, firstSegmentType[1], <<>>)), 3)
    ELSE firstLevelSegments

\* firstSegmentType || 'By Drug Class'
SegmentTypeOrDefault(firstSegmentType) ==
    IF Truthy(firstSegmentType) THEN firstSegmentType[1] ELSE "By Drug Class"

\* faulty variant of createTopMarketFilters: the null branch carries the year
\* range of the other two builders
createTopMarketFilters_WrongNullRange(d) ==
    IF d.isNull
    THEN [viewMode |-> "geography-mode", yearRange |-> <<2024, 2032>>,
          dataType |-> "value"]
    ELSE LET topRegions == getTopRegionsByMarketValue(d, 2024, 3)
             firstSegmentType == getFirstSegmentType(d)
             firstLevelSegments == FirstLevelSegmentsFor(d, firstSegmentType)
         IN [viewMode |-> "geography-mode",
             geographies |-> GeographiesOrFallback(d, topRegions, 3),
             segments |-> SegmentsOrFallback(d, firstLevelSegments, firstSegmentType),
             segmentType |-> SegmentTypeOrDefault(firstSegmentType),
             yearRange |-> <<2024, 2028>>,
             dataType |-> "value"]

\* faulty variant of createTopMarketFilters: the fallback takes two
\* geographies, as the Growth Leaders builder does
createTopMarketFilters_FallbackTwo(d) ==
    IF d.isNull
    THEN [viewMode |-> "geography-mode", yearRange |-> <<2024, 2028>>,
          dataType |-> "value"]
    ELSE LET topRegions == getTopRegionsByMarketValue(d, 2024, 3)
             firstSegmentType == getFirstSegmentType(d)
             firstLevelSegments == FirstLevelSegmentsFor(d, firstSegmentType)
         IN [viewMode |-> "geography-mode",
             geographies |-> GeographiesOrFallback(d, topRegions, 2),
             segments |-> SegmentsOrFallback(d, firstLevelSegments, firstSegmentType),
             segmentType |-> SegmentTypeOrDefault(firstSegmentType),
             yearRange |-> <<2024, 2028>>,
             dataType |-> "value"]

createTopMarketFilters(d) ==
    IF d.isNull
    THEN [viewMode |-> "geography-mode", yearRange |-> <<2024, 2028>>,
          dataType |-> "value"]
    ELSE LET topRegions == getTopRegionsByMarketValue(d, 2024, 3)
             firstSegmentType == getFirstSegmentType(d)
             firstLevelSegments == FirstLevelSegmentsFor(d, firstSegmentType)
         IN [viewMode |-> "geography-mode",
             geographies |-> GeographiesOrFallback(d, topRegions, 3),
             segments |-> SegmentsOrFallback(d, firstLevelSegments, firstSegmentType),
             segmentType |-> SegmentTypeOrDefault(firstSegmentType),
             yearRange |-> <<2024, 2028>>,
             dataType |-> "value"]

\* faulty variant of createGrowthLeadersFilters: the year range is the one of
\* the Top Market builder
createGrowthLeadersFilters_TopMarketRange(d) ==
    IF d.isNull
    THEN [viewMode |-> "geography-mode", yearRange |-> <<2024, 2032>>,
          dataType |-> "value"]
    ELSE LET topRegions == getTopRegionsByCAGR(d, 2)
             firstSegmentType == getFirstSegmentType(d)
             firstLevelSegments == FirstLevelSegmentsFor(d, firstSegmentType)
         IN [viewMode |-> "geography-mode",
             geographies |-> GeographiesOrFallback(d, topRegions, 2),
             segments |-> SegmentsOrFallback(d, firstLevelSegments, firstSegmentType),
             segmentType |-> SegmentTypeOrDefault(firstSegmentType),
             yearRange |-> <<2024, 2028>>,
             dataType |-> "value"]

createGrowthLeadersFilters(d) ==
    IF d.isNull
    THEN [viewMode |-> "geography-mode", yearRange |-> <<2024, 2032>>,
          dataType |-> "value"]
    ELSE LET topRegions == getTopRegionsByCAGR(d, 2)
             firstSegmentType == getFirstSegmentType(d)
             firstLevelSegments == FirstLevelSegmentsFor(d, firstSegmentType)
         IN [viewMode |-> "geography-mode",
             geographies |-> GeographiesOrFallback(d, topRegions, 2),
             segments |-> SegmentsOrFallback(d, firstLevelSegments, firstSegmentType),
             segmentType |-> SegmentTypeOrDefault(firstSegmentType),
             yearRange |-> <<2024, 2032>>,
             dataType |-> "value"]

createEmergingMarketsFilters(d) ==
    IF d.isNull
    THEN [viewMode |-> "geography-mode", yearRange |-> <<2024, 2032>>,
          dataType |-> "value"]
    ELSE LET topCountries == getTopCountriesByCAGR(d, 5)
             firstSegmentType == getFirstSegmentType(d)
             firstLevelSegments == FirstLevelSegmentsFor(d, firstSegmentType)
         IN [viewMode |-> "geography-mode",
             geographies |-> GeographiesOrFallback(d, topCountries, 5),
             segments |-> SegmentsOrFallback(d, firstLevelSegments, firstSegmentType),
             segmentType |-> SegmentTypeOrDefault(firstSegmentType),
             yearRange |-> <<2024, 2032>>,
             dataType |-> "value"]

\* the builders catch nothing: a TypeError of getFirstSegmentType (lines 285,
\* 331, 377) or of getFirstLevelSegments (lines 286-288, 332-334, 378-380)
\* leaves the builder
PresetBuilder_Throws(d) ==
    /\ ~d.isNull
    /\ \/ getFirstSegmentType_Throws(d)
       \/ /\ Truthy(getFirstSegmentType(d))
          /\ getFirstLevelSegments_Throws(d, getFirstSegmentType(d)[1])

(***************************************************************************)
(* The dataset after a call.  The engine receives the dataset by           *)
(* reference; of the operations it performs, Map.prototype.set, push and   *)
(* sort change their receiver, while Array.from, map, filter, slice, flat, *)
(* Object.keys and Object.values build a new array.                        *)
(***************************************************************************)
\* the receivers are the local Map (lines 45, 160, 232) and the arrays made by
\* Array.from (lines 60, 178, 250): the dataset is only read
DatasetAfterRanking(d) == d

\* faulty variant of DatasetAfterFirstLevelSegments: sort() is applied to the
\* items array of the segment type
DatasetAfterFirstLevelSegments_SortsItems(d, segmentType) ==
    IF d.isNull THEN d
    ELSE [d EXCEPT !.segments =
            [i \in 1..Len(d.segments) |->
                IF d.segments[i].key = segmentType /\ d.segments[i].val.hasItems
                THEN [d.segments[i] EXCEPT !.val.items = ArraySortDefault(@)]
                ELSE d.segments[i]]]

\* the receiver of push (lines 100, 107) and of sort (line 111) is the local
\* array firstLevelSegments (line 95); items and hierarchy are only read
DatasetAfterFirstLevelSegments(d, segmentType) == d

\* Object.keys builds a new array (line 122)
DatasetAfterFirstSegmentType(d) == d

\* faulty variant of DatasetAfterPreset: the segment fallback takes the first
\* three items with splice(0, 3), which removes them from the items array
DatasetAfterPreset_SpliceItems(d) ==
    IF d.isNull THEN d
    ELSE LET firstSegmentType == getFirstSegmentType(d)
         IN IF /\ Truthy(firstSegmentType)
               /\ MapHas(d.segments, firstSegmentType[1])
               /\ getFirstLevelSegments(d, firstSegmentType[1]) = <<>>
            THEN [d EXCEPT !.segments =
                    [i \in 1..Len(d.segments) |->
                        IF d.segments[i].key = firstSegmentType[1]
                           /\ d.segments[i].val.hasItems
                        THEN [d.segments[i] EXCEPT !.val.items =
                                SubSeq(@, Min(3, Len(@)) + 1, Len(@))]
                        ELSE d.segments[i]]]
            ELSE d

\* filter and slice build new arrays (lines 292-293, 300-301 and their copies
\* in the other two builders); the three calls made are covered above
DatasetAfterPreset(d) ==
    IF d.isNull THEN d
    ELSE LET afterRanking == DatasetAfterRanking(d)
             firstSegmentType == getFirstSegmentType(afterRanking)
             afterFirstSegmentType == DatasetAfterFirstSegmentType(afterRanking)
         IN IF Truthy(firstSegmentType)
            THEN DatasetAfterFirstLevelSegments(afterFirstSegmentType,
                                                firstSegmentType[1])
            ELSE afterFirstSegmentType

(***************************************************************************)
(* Input space.                                                            *)
(***************************************************************************)
\* the sequences over S of length at most n that repeat no element
DistinctSeqsUpTo(S, n) ==
    UNION {{q \in [1..k -> S] : \A i, j \in 1..k : i # j => q[i] # q[j]} : k \in 0..n}

NoTimeSeries == [y \in {} |-> 0]

TimeSeriesSet == {NoTimeSeries} \cup {[y \in {DefaultYear} |-> v] : v \in 1..MaxValue}

CagrSet == {Undefined, Null, NaN, Num(-1), Num(1)}

ValueRecordSet ==
    {[geography |-> g, time_series |-> ts, cagr |-> Undefined] :
        g \in {GLOBAL, "A", "B", "C"}, ts \in TimeSeriesSet}

CagrRecordSet ==
    {[geography |-> g, time_series |-> NoTimeSeries, cagr |-> c] :
        g \in {GLOBAL, "A", "B"}, c \in CagrSet}

Rec(g, ts, c) == [geography |-> g, time_series |-> ts, cagr |-> c]

SegmentDimension(items, hierarchy) ==
    [hasItems |-> TRUE, items |-> items, hasHierarchy |-> TRUE, hierarchy |-> hierarchy]

Entry(k, v) == [key |-> k, val |-> v]

\* items = [X, Y, Z, W], hierarchy = {X: [Y, Z]}
ExampleSegmentDimension ==
    SegmentDimension(<<"X", "Y", "Z", "W">>, <<Entry("X", <<"Y", "Z">>)>>)

ExampleSegments == <<Entry("By Drug Class", ExampleSegmentDimension)>>

ExampleAllGeographies == [present |-> TRUE, list |-> <<GLOBAL, "A", "B", "C", "D">>]

Dataset(path, records, allGeographies, segments) ==
    [isNull |-> FALSE, matrixPath |-> path, records |-> records,
     dimensionsPath |-> "segments",
     all_geographies |-> allGeographies, segments |-> segments]

NullDataset ==
    [isNull |-> TRUE, matrixPath |-> "noData", records |-> <<>>,
     dimensionsPath |-> "noDimensions",
     all_geographies |-> [present |-> FALSE, list |-> <<>>], segments |-> <<>>]

\* a dataset whose dimensions object, or its segments field, is absent
MalformedDataset(path, records, dimensionsPath, allGeographies) ==
    [isNull |-> FALSE, matrixPath |-> path, records |-> records,
     dimensionsPath |-> dimensionsPath,
     all_geographies |-> allGeographies, segments |-> <<>>]

RankDataset(path, records) ==
    Dataset(path, records, ExampleAllGeographies, ExampleSegments)

\* A averaging 5, B averaging 9, C without cagr
GrowthLeadersRecords ==
    <<Rec("A", NoTimeSeries, Num(4)), Rec("B", NoTimeSeries, Num(9)),
      Rec("C", NoTimeSeries, Null), Rec("A", NoTimeSeries, Num(6))>>

\* no record carries a value for 2024
NoValueRecords ==
    <<Rec(GLOBAL, NoTimeSeries, Undefined), Rec("A", NoTimeSeries, Undefined)>>

\* the entries of a matrix that is an object with indexed entries, not an array
ArrayLikeRecords ==
    <<Rec("A", [y \in {DefaultYear} |-> 1], Num(1)), Rec("B", NoTimeSeries, Num(-1))>>

\* the matrix paths that do not end in an array
BrokenPaths == {"noData", "noValue", "noMatrix", "notArray"}

SegNames == {"W", "X", "Y"}

ItemLists == DistinctSeqsUpTo(SegNames, Cardinality(SegNames))

ChildLists == DistinctSeqsUpTo(SegNames, MaxChildren)

\* the hierarchies with the parent keys ks, in that order
HierarchiesOver(ks) ==
    {[i \in 1..Len(ks) |-> Entry(ks[i], cs[i])] : cs \in [1..Len(ks) -> ChildLists]}

Hierarchies == UNION {HierarchiesOver(ks) : ks \in DistinctSeqsUpTo(SegNames, MaxParents)}

\* segment dimensions without an items field, a hierarchy field, or both
PartialSegmentDimensions ==
    {[hasItems |-> TRUE, items |-> <<"Y", "X">>, hasHierarchy |-> FALSE, hierarchy |-> <<>>],
     [hasItems |-> FALSE, items |-> <<>>, hasHierarchy |-> TRUE,
      hierarchy |-> <<Entry("X", <<"Y">>)>>],
     [hasItems |-> FALSE, items |-> <<>>, hasHierarchy |-> FALSE, hierarchy |-> <<>>]}

SegDataset(segments) == Dataset("array", NoValueRecords, ExampleAllGeographies, segments)

\* two segment types, the first one flat
TwoTypeSegments ==
    <<Entry("T2", SegmentDimension(<<"a", "XY", "X">>, <<>>)),
      Entry("T1", ExampleSegmentDimension)>>

SegmentTypeArgs == {"T1", "T2", "By Drug Class"}

PresetRecordArrays ==
    {<<>>, GrowthLeadersRecords, NoValueRecords,
     <<Rec("B", [y \in {DefaultYear} |-> 1], Num(1)),
       Rec(GLOBAL, [y \in {DefaultYear} |-> 5], Num(9)),
       Rec("A", [y \in {DefaultYear} |-> 2], NaN)>>,
     <<Rec(GLOBAL, [y \in {DefaultYear} |-> 5], Num(9))>>}

PresetAllGeographies ==
    {[present |-> FALSE, list |-> <<>>],
     [present |-> TRUE, list |-> <<>>],
     [present |-> TRUE, list |-> <<GLOBAL>>],
     [present |-> TRUE, list |-> <<"A", GLOBAL, "B">>],
     ExampleAllGeographies}

PresetSegments ==
    {<<>>, ExampleSegments,
     <<Entry("T1", SegmentDimension(<<"X", "Y">>, <<Entry("X", <<"Y">>), Entry("Y", <<"X">>)>>))>>,
     <<Entry("T2", SegmentDimension(<<"a", "XY", "X", "W">>, <<Entry("W", <<"a", "XY", "X", "W">>)>>)),
       Entry("T1", ExampleSegmentDimension)>>,
     <<Entry("", SegmentDimension(<<"Y", "X">>, <<>>)),
       Entry("T1", ExampleSegmentDimension)>>}

PresetDatasets ==
    {Dataset(path, rs, geos, segs) :
        path \in {"array", "noMatrix"}, rs \in PresetRecordArrays,
        geos \in PresetAllGeographies, segs \in PresetSegments}
    \cup {NullDataset}

(***************************************************************************)
(* DashboardPage.  The page record holds the store fields the component    *)
(* reads (data, rawIntelligenceData, ..., selectedChartGroup,              *)
(* filtersViewMode), the useState cells (activePropositionTab, activeTab,  *)
(* showInsights, sidebarCollapsed, viewMode), and, for the effects, the    *)
(* dependency values of the render they last ran after.  A dataset of the  *)
(* store is "null", "noRows" or "rows".  The modules @/lib/store and       *)
(* @/lib/chart-groups are not part of the sources: setSelectedChartGroup   *)
(* is taken to store its argument, and the chart list of each group is an  *)
(* unknown fixed when the page is created.                                 *)
(***************************************************************************)
CUSTOMER_INTELLIGENCE == "customer-intelligence"

Tabs ==
    {"bar", "line", "heatmap", "table", "waterfall", "bubble",
     "competitive-intelligence", CUSTOMER_INTELLIGENCE}

PropositionTabs == {"prop1", "prop2", "prop3"}

ChartGroups == {"market-analysis", CUSTOMER_INTELLIGENCE, "other-group"}

\* chartIdToTab[chartId]: the tab, or nothing for an id the table lacks
chartIdToTab(chartId) ==
    CASE chartId = "grouped-bar" -> <<"bar">>
      [] chartId = "multi-line" -> <<"line">>
      [] chartId = "heatmap" -> <<"heatmap">>
      [] chartId = "comparison-table" -> <<"table">>
      [] chartId = "waterfall" -> <<"waterfall">>
      [] chartId = "bubble" -> <<"bubble">>
      [] chartId = "competitive-intelligence" -> <<"competitive-intelligence">>
      [] chartId = CUSTOMER_INTELLIGENCE -> <<CUSTOMER_INTELLIGENCE>>
      [] OTHER -> <<>>

\* the chart whose button selects tab t
ChartOfTab(t) ==
    CHOOSE chartId \in {"grouped-bar", "multi-line", "heatmap", "comparison-table",
                        "waterfall", "bubble", "competitive-intelligence",
                        CUSTOMER_INTELLIGENCE} : chartIdToTab(chartId) = <<t>>

MarketChartIds ==
    {"grouped-bar", "multi-line", "heatmap", "comparison-table", "waterfall",
     "bubble", "competitive-intelligence"}

\* x && x.rows && x.rows.length > 0
HasRows(dataset) == dataset = "rows"

hasProp1(p) == HasRows(p.rawIntelligenceData)

hasProp2(p) == HasRows(p.proposition2Data)

hasProp3(p) == HasRows(p.proposition3Data)

hasMarketData(p) == p.data

hasIntelligenceData(p) ==
    \/ p.rawIntelligenceData # "null"
    \/ p.customerIntelligenceData
    \/ p.distributorIntelligenceData

getChartsForGroup(p, group) == p.chartGroups[group]

visibleCharts(p) == getChartsForGroup(p, p.selectedChartGroup)

isChartVisible(p, chartId) ==
    IF chartId = CUSTOMER_INTELLIGENCE
    THEN chartId \in Range(visibleCharts(p)) /\ hasIntelligenceData(p)
    ELSE IF chartId \in MarketChartIds
    THEN chartId \in Range(visibleCharts(p)) /\ hasMarketData(p)
    ELSE chartId \in Range(visibleCharts(p))

\* the tab of visibleCharts.find(chart => chart !== 'customer-intelligence'),
\* or nothing when there is no such chart or the table lacks it
FirstOtherTab(p) ==
    LET others == SelectSeq(visibleCharts(p), LAMBDA c : c # CUSTOMER_INTELLIGENCE)
    IN IF others = <<>> THEN <<>> ELSE chartIdToTab(Head(others))

\* the tab of visibleCharts[0], or nothing
FirstVisibleTab(p) ==
    IF visibleCharts(p) = <<>> THEN <<>> ELSE chartIdToTab(Head(visibleCharts(p)))

\* The effects.  r is the render the effect closes over, s the state its
\* updates are applied to.

\* "Set default proposition tab when data loads"
DefaultPropositionTabEffect(r, s) ==
    LET tab == r.activePropositionTab
    IN IF hasProp1(r) /\ tab # "prop1" /\ ~hasProp2(r) /\ ~hasProp3(r)
       THEN [s EXCEPT !.activePropositionTab = "prop1"]
       ELSE IF hasProp2(r) /\ tab # "prop2" /\ ~hasProp1(r) /\ ~hasProp3(r)
       THEN [s EXCEPT !.activePropositionTab = "prop2"]
       ELSE IF hasProp3(r) /\ tab # "prop3" /\ ~hasProp1(r) /\ ~hasProp2(r)
       THEN [s EXCEPT !.activePropositionTab = "prop3"]
       ELSE IF hasProp1(r) /\ tab # "prop1" /\ tab # "prop2" /\ tab # "prop3"
       THEN [s EXCEPT !.activePropositionTab = "prop1"]
       ELSE s

setSelectedChartGroup(s, group) == [s EXCEPT !.selectedChartGroup = group]

\* faulty variant of ChartGroupAutoSwitchEffect: with only intelligence data
\* the group is left alone
ChartGroupAutoSwitchEffect_MarketOnly(r, s) ==
    IF r.selectedChartGroup = CUSTOMER_INTELLIGENCE /\ ~hasIntelligenceData(r)
    THEN IF hasMarketData(r) THEN setSelectedChartGroup(s, "market-analysis") ELSE s
    ELSE s

\* "Auto-switch chart group based on available data"
ChartGroupAutoSwitchEffect(r, s) ==
    IF r.selectedChartGroup = CUSTOMER_INTELLIGENCE /\ ~hasIntelligenceData(r)
    THEN IF hasMarketData(r) THEN setSelectedChartGroup(s, "market-analysis") ELSE s
    ELSE IF /\ ~hasMarketData(r) /\ hasIntelligenceData(r)
            /\ r.selectedChartGroup # CUSTOMER_INTELLIGENCE
    THEN setSelectedChartGroup(s, CUSTOMER_INTELLIGENCE)
    ELSE IF /\ hasMarketData(r) /\ ~hasIntelligenceData(r)
            /\ r.selectedChartGroup = CUSTOMER_INTELLIGENCE
    THEN setSelectedChartGroup(s, "market-analysis")
    ELSE s

\* faulty variant of TabAutoSwitchEffect: the last block runs only when the
\* active tab is not one of the visible charts
TabAutoSwitchEffect_KeepVisibleTab(r, s) ==
    IF /\ r.activeTab = CUSTOMER_INTELLIGENCE /\ ~hasIntelligenceData(r)
       /\ FirstOtherTab(r) # <<>>
    THEN [s EXCEPT !.activeTab = FirstOtherTab(r)[1]]
    ELSE IF /\ ~hasMarketData(r) /\ hasIntelligenceData(r)
            /\ r.activeTab # CUSTOMER_INTELLIGENCE
    THEN [s EXCEPT !.activeTab = CUSTOMER_INTELLIGENCE]
    ELSE IF /\ hasMarketData(r) /\ ~hasIntelligenceData(r)
            /\ r.activeTab = CUSTOMER_INTELLIGENCE
            /\ FirstOtherTab(r) # <<>>
    THEN [s EXCEPT !.activeTab = FirstOtherTab(r)[1]]
    ELSE IF /\ FirstVisibleTab(r) # <<>>
            /\ ChartOfTab(r.activeTab) \notin Range(visibleCharts(r))
    THEN [s EXCEPT !.activeTab = FirstVisibleTab(r)[1]]
    ELSE s

\* "Auto-switch to first available tab when chart group changes"
TabAutoSwitchEffect(r, s) ==
    IF /\ r.activeTab = CUSTOMER_INTELLIGENCE /\ ~hasIntelligenceData(r)
       /\ FirstOtherTab(r) # <<>>
    THEN [s EXCEPT !.activeTab = FirstOtherTab(r)[1]]
    ELSE IF /\ ~hasMarketData(r) /\ hasIntelligenceData(r)
            /\ r.activeTab # CUSTOMER_INTELLIGENCE
    THEN [s EXCEPT !.activeTab = CUSTOMER_INTELLIGENCE]
    ELSE IF /\ hasMarketData(r) /\ ~hasIntelligenceData(r)
            /\ r.activeTab = CUSTOMER_INTELLIGENCE
            /\ FirstOtherTab(r) # <<>>
    THEN [s EXCEPT !.activeTab = FirstOtherTab(r)[1]]
    ELSE IF FirstVisibleTab(r) # <<>>
    THEN [s EXCEPT !.activeTab = FirstVisibleTab(r)[1]]
    ELSE s

\* "Auto-switch to heatmap when matrix mode is selected"
MatrixHeatmapEffect(r, s) ==
    IF r.filtersViewMode = "matrix" /\ isChartVisible(r, "heatmap")
    THEN [s EXCEPT !.activeTab = "heatmap"]
    ELSE s

\* the dependency arrays of the four effects
DepsOf(p) ==
    [proposition |-> <<p.rawIntelligenceData, p.proposition2Data,
                       p.proposition3Data, p.activePropositionTab>>,
     chartGroup |-> <<p.selectedChartGroup, hasIntelligenceData(p),
                      hasMarketData(p)>>,
     tab |-> <<p.selectedChartGroup, visibleCharts(p), hasIntelligenceData(p),
               hasMarketData(p), p.activeTab>>,
     heatmap |-> <<p.filtersViewMode>>]

\* an effect runs after the first render and after a render in which one of
\* its dependencies differs from the render it last ran after
EffectDue(p, effect) == ~p.mounted \/ p.seen[effect] # DepsOf(p)[effect]

EffectsSettled(p) ==
    \A effect \in {"proposition", "chartGroup", "tab", "heatmap"} :
        ~EffectDue(p, effect)

\* the page as it is constructed, over the store it finds
InitialPage(store, chartGroups) ==
    LET p == [data |-> store.data,
              rawIntelligenceData |-> store.rawIntelligenceData,
              customerIntelligenceData |-> store.customerIntelligenceData,
              distributorIntelligenceData |-> store.distributorIntelligenceData,
              proposition2Data |-> store.proposition2Data,
              proposition3Data |-> store.proposition3Data,
              selectedChartGroup |-> store.selectedChartGroup,
              filtersViewMode |-> store.filtersViewMode,
              chartGroups |-> chartGroups,
              activePropositionTab |-> "prop1",
              activeTab |-> "bar",
              showInsights |-> FALSE,
              sidebarCollapsed |-> FALSE,
              viewMode |-> "tabs",
              mounted |-> FALSE,
              loading |-> FALSE,
              clicked |-> "none",
              groupAtEvent |-> store.selectedChartGroup,
              groupChanges |-> 0]
    IN p @@ [seen |-> DepsOf(p)]

ExampleChartGroups ==
    [group \in ChartGroups |->
        IF group = CUSTOMER_INTELLIGENCE THEN <<CUSTOMER_INTELLIGENCE>>
        ELSE IF group = "market-analysis"
        THEN <<"grouped-bar", "multi-line", "heatmap">>
        ELSE <<"heatmap", "comparison-table", CUSTOMER_INTELLIGENCE>>]

EmptyStore ==
    [data |-> FALSE, rawIntelligenceData |-> "null",
     customerIntelligenceData |-> FALSE, distributorIntelligenceData |-> FALSE,
     proposition2Data |-> "null", proposition3Data |-> "null",
     selectedChartGroup |-> "market-analysis", filtersViewMode |-> "geography-mode"]

ExamplePage == InitialPage(EmptyStore, ExampleChartGroups)

(***************************************************************************)
(* A builder invocation taken statement by statement.  Its locals are the  *)
(* variables declared inside the function bodies.                          *)
(***************************************************************************)
MaxInvocations == 2

InvocationIds == 1..MaxInvocations

\* an invocation slot with no call in it
NoLocals ==
    [builder |-> "none", pc |-> "idle", index |-> 0, geographyTotals |-> <<>>,
     geographyCAGRs |-> <<>>, ranked |-> <<>>, result |-> <<>>]

NoInvocations == [id \in InvocationIds |-> NoLocals]

\* faulty variant of geographyTotalsOf: one Map at module level, the one the
\* first invocation fills
geographyTotalsOf_ModuleLevel(invs, id) == invs[1].geographyTotals

\* const geographyTotals = new Map(): declared in the function body, so every
\* invocation has its own
geographyTotalsOf(invs, id) == invs[id].geographyTotals

\* const geographyCAGRs = new Map(): declared in the function body
geographyCAGRsOf(invs, id) == invs[id].geographyCAGRs

\* one pass of the forEach body of getTopRegionsByMarketValue
geographyTotalsAfter(totals, record, year) ==
    LET geography == record.geography
        value == TimeSeriesValueOrZero(record, year)
    IN IF geography = GLOBAL THEN totals
       ELSE MapSet(totals, geography,
                   MapGetOr(totals, geography, 0) + value)

\* one pass of the forEach body of getTopRegionsByCAGR and of
\* getTopCountriesByCAGR
geographyCAGRsAfter(geographyCAGRs, record) ==
    LET geography == record.geography
    IN IF geography = GLOBAL THEN geographyCAGRs
       ELSE IF HasValidCagr(record)
            THEN MapSet(geographyCAGRs, geography,
                        Append(MapGetOr(geographyCAGRs, geography, <<>>),
                               record.cagr.val))
            ELSE geographyCAGRs

\* the statements after the forEach of the ranking a builder calls: sort,
\* slice(0, topN) and map over the local Map
RankedFromLocals(builder, totals, geographyCAGRs) ==
    IF builder = "createTopMarketFilters"
    THEN Keys(ArraySliceFromZero(SortByTotal(totals, <<>>), 3))
    ELSE IF Len(geographyCAGRs) = 0 THEN <<>>
    ELSE IF builder = "createGrowthLeadersFilters"
    THEN Geographies(ArraySliceFromZero(
             SortByAvgCAGR_Regions(avgCAGRs_Regions(geographyCAGRs), <<>>), 2))
    ELSE Geographies(ArraySliceFromZero(
             SortByAvgCAGR_Countries(avgCAGRs_Countries(geographyCAGRs), <<>>), 5))

\* the null branch of a builder
PresetOfNull(builder) ==
    [viewMode |-> "geography-mode",
     yearRange |-> IF builder = "createTopMarketFilters"
                   THEN <<2024, 2028>> ELSE <<2024, 2032>>,
     dataType |-> "value"]

\* the statements of a builder after its ranking call has returned ranked
PresetFromRanked(builder, d, ranked) ==
    LET firstSegmentType == getFirstSegmentType(d)
        firstLevelSegments == FirstLevelSegmentsFor(d, firstSegmentType)
        n == IF builder = "createTopMarketFilters" THEN 3
             ELSE IF builder = "createGrowthLeadersFilters" THEN 2 ELSE 5
    IN [viewMode |-> "geography-mode",
        geographies |-> GeographiesOrFallback(d, ranked, n),
        segments |-> SegmentsOrFallback(d, firstLevelSegments, firstSegmentType),
        segmentType |-> SegmentTypeOrDefault(firstSegmentType),
        yearRange |-> IF builder = "createTopMarketFilters"
                      THEN <<2024, 2028>> ELSE <<2024, 2032>>,
        dataType |-> "value"]

(***************************************************************************)
(* Calls.  The engine is synchronous: a call starts when no call is in     *)
(* progress and is complete in one step; Return hands the value back.      *)
(***************************************************************************)
NoArgs == [year |-> 0, topN |-> 0, segmentType |-> ""]

\* the topN values passed to the CAGR rankings; an omitted topN is the default
TopNArgs == (0..MaxTopN) \cup {DefaultTopNRegions, DefaultTopNCountries}

BuilderFns ==
    {"createTopMarketFilters", "createGrowthLeadersFilters",
     "createEmergingMarketsFilters"}

NoHistory == [b \in BuilderFns |-> [result |-> <<>>, otherCalls |-> FALSE]]

\* the observer after function f has returned value r: the first result of a
\* builder is kept; a later return of a different function is another call
HistoryAfterReturn(h, f, r) ==
    [b \in BuilderFns |->
        IF h[b].result = <<>>
        THEN IF b = f THEN [result |-> <<r>>, otherCalls |-> FALSE] ELSE h[b]
        ELSE IF b = f THEN h[b] ELSE [h[b] EXCEPT !.otherCalls = TRUE]]

Idle ==
    /\ fn = "none"
    /\ args = NoArgs
    /\ ret = <<>>
    /\ outcome = "none"

CallGetTopRegionsByMarketValue ==
    /\ fn = "none"
    /\ \E year \in {DefaultYear, DefaultYear + 1}, topN \in 0..MaxTopN :
        /\ fn' = "getTopRegionsByMarketValue"
        /\ args' = [NoArgs EXCEPT !.year = year, !.topN = topN]
        /\ ret' = getTopRegionsByMarketValue(data, year, topN)
        /\ outcome' = "returned"
    /\ data' = DatasetAfterRanking(data)
    /\ UNCHANGED <<history, invocations, page>>

CallGetTopRegionsByCAGR ==
    /\ fn = "none"
    /\ \E topN \in TopNArgs :
        /\ fn' = "getTopRegionsByCAGR"
        /\ args' = [NoArgs EXCEPT !.topN = topN]
        /\ ret' = getTopRegionsByCAGR(data, topN)
        /\ outcome' = "returned"
    /\ data' = DatasetAfterRanking(data)
    /\ UNCHANGED <<history, invocations, page>>

CallGetTopCountriesByCAGR ==
    /\ fn = "none"
    /\ \E topN \in TopNArgs :
        /\ fn' = "getTopCountriesByCAGR"
        /\ args' = [NoArgs EXCEPT !.topN = topN]
        /\ ret' = getTopCountriesByCAGR(data, topN)
        /\ outcome' = "returned"
    /\ data' = DatasetAfterRanking(data)
    /\ UNCHANGED <<history, invocations, page>>

CallGetFirstLevelSegments ==
    /\ fn = "none"
    /\ \E segmentType \in SegmentTypeArgs :
        /\ fn' = "getFirstLevelSegments"
        /\ args' = [NoArgs EXCEPT !.segmentType = segmentType]
        /\ outcome' = IF getFirstLevelSegments_Throws(data, segmentType)
                      THEN "thrown" ELSE "returned"
        /\ ret' = IF getFirstLevelSegments_Throws(data, segmentType)
                  THEN <<>> ELSE getFirstLevelSegments(data, segmentType)
        /\ data' = DatasetAfterFirstLevelSegments(data, segmentType)
    /\ UNCHANGED <<history, invocations, page>>

CallGetFirstSegmentType ==
    /\ fn = "none"
    /\ fn' = "getFirstSegmentType"
    /\ args' = NoArgs
    /\ outcome' = IF getFirstSegmentType_Throws(data) THEN "thrown" ELSE "returned"
    /\ ret' = IF getFirstSegmentType_Throws(data)
              THEN <<>> ELSE getFirstSegmentType(data)
    /\ data' = DatasetAfterFirstSegmentType(data)
    /\ UNCHANGED <<history, invocations, page>>

CallCreateTopMarketFilters ==
    /\ fn = "none"
    /\ fn' = "createTopMarketFilters"
    /\ args' = NoArgs
    /\ outcome' = IF PresetBuilder_Throws(data) THEN "thrown" ELSE "returned"
    /\ ret' = IF PresetBuilder_Throws(data) THEN <<>> ELSE createTopMarketFilters(data)
    /\ data' = DatasetAfterPreset(data)
    /\ UNCHANGED <<history, invocations, page>>

CallCreateGrowthLeadersFilters ==
    /\ fn = "none"
    /\ fn' = "createGrowthLeadersFilters"
    /\ args' = NoArgs
    /\ outcome' = IF PresetBuilder_Throws(data) THEN "thrown" ELSE "returned"
    /\ ret' = IF PresetBuilder_Throws(data) THEN <<>> ELSE createGrowthLeadersFilters(data)
    /\ data' = DatasetAfterPreset(data)
    /\ UNCHANGED <<history, invocations, page>>

CallCreateEmergingMarketsFilters ==
    /\ fn = "none"
    /\ fn' = "createEmergingMarketsFilters"
    /\ args' = NoArgs
    /\ outcome' = IF PresetBuilder_Throws(data) THEN "thrown" ELSE "returned"
    /\ ret' = IF PresetBuilder_Throws(data) THEN <<>> ELSE createEmergingMarketsFilters(data)
    /\ data' = DatasetAfterPreset(data)
    /\ UNCHANGED <<history, invocations, page>>

Return ==
    /\ fn # "none"
    /\ fn' = "none"
    /\ args' = NoArgs
    /\ ret' = <<>>
    /\ outcome' = "none"
    /\ history' = IF outcome = "returned"
                  THEN HistoryAfterReturn(history, fn, ret) ELSE history
    /\ UNCHANGED <<data, invocations, page>>

(***************************************************************************)
(* Specifications: the ranking functions, the hierarchy resolver and the   *)
(* preset builders, each over its own input space.                         *)
(***************************************************************************)
InitRank ==
    /\ \/ \E k \in 0..MaxRecords : \E rs \in [1..k -> ValueRecordSet] :
              data = RankDataset("array", rs)
       \/ \E k \in 0..MaxRecords : \E rs \in [1..k -> CagrRecordSet] :
              data = RankDataset("array", rs)
       \/ \E path \in BrokenPaths : data = RankDataset(path, <<>>)
       \/ data = RankDataset("notArray", ArrayLikeRecords)
       \/ data = RankDataset("array", GrowthLeadersRecords)
       \/ data = NullDataset
    /\ Idle
    /\ history = NoHistory
    /\ invocations = NoInvocations
    /\ page = ExamplePage

NextRank ==
    \/ CallGetTopRegionsByMarketValue
    \/ CallGetTopRegionsByCAGR
    \/ CallGetTopCountriesByCAGR
    \/ Return

SpecRank == InitRank /\ [][NextRank]_vars

InitSeg ==
    /\ \/ \E items \in ItemLists, h \in Hierarchies :
              data = SegDataset(<<Entry("T1", SegmentDimension(items, h))>>)
       \/ data \in {SegDataset(ExampleSegments), SegDataset(TwoTypeSegments),
                     SegDataset(<<>>), NullDataset}
       \/ \E dim \in PartialSegmentDimensions :
              data = SegDataset(<<Entry("T1", dim)>>)
    /\ Idle
    /\ history = NoHistory
    /\ invocations = NoInvocations
    /\ page = ExamplePage

NextSeg ==
    \/ CallGetFirstLevelSegments
    \/ CallGetFirstSegmentType
    \/ Return

SpecSeg == InitSeg /\ [][NextSeg]_vars

InitPreset == data \in PresetDatasets /\ Idle /\ history = NoHistory
    /\ invocations = NoInvocations
    /\ page = ExamplePage

NextPreset ==
    \/ CallCreateTopMarketFilters
    \/ CallCreateGrowthLeadersFilters
    \/ CallCreateEmergingMarketsFilters
    \/ Return

SpecPreset == InitPreset /\ [][NextPreset]_vars

\* the whole engine: every exported function, in any order, on one dataset
InitEngine == data \in PresetDatasets /\ Idle /\ history = NoHistory
    /\ invocations = NoInvocations
    /\ page = ExamplePage

NextEngine ==
    \/ CallGetTopRegionsByMarketValue
    \/ CallGetTopRegionsByCAGR
    \/ CallGetTopCountriesByCAGR
    \/ CallGetFirstLevelSegments
    \/ CallGetFirstSegmentType
    \/ CallCreateTopMarketFilters
    \/ CallCreateGrowthLeadersFilters
    \/ CallCreateEmergingMarketsFilters
    \/ Return

SpecEngine == InitEngine /\ [][NextEngine]_vars

\* the whole engine on datasets that lack part of the expected shape
MalformedDatasets ==
    {MalformedDataset(path, rs, dp, geos) :
        path \in {"array", "noMatrix"}, rs \in {<<>>, GrowthLeadersRecords},
        dp \in {"noSegments"}, geos \in {[present |-> FALSE, list |-> <<>>],
                                          ExampleAllGeographies}}
    \cup {MalformedDataset(path, rs, "noDimensions", [present |-> FALSE, list |-> <<>>]) :
            path \in {"array", "noMatrix"}, rs \in {<<>>, GrowthLeadersRecords}}
    \cup {Dataset("array", GrowthLeadersRecords, ExampleAllGeographies,
                  <<Entry("T1", dim)>>) : dim \in PartialSegmentDimensions}

InitMalformed == data \in MalformedDatasets /\ Idle /\ history = NoHistory
    /\ invocations = NoInvocations
    /\ page = ExamplePage

SpecMalformed == InitMalformed /\ [][NextEngine]_vars

(***************************************************************************)
(* Builder invocations over one dataset, interleaved statement by          *)
(* statement.                                                              *)
(***************************************************************************)
InterleavedDatasets ==
    {Dataset("array", rs, ExampleAllGeographies, ExampleSegments) :
        rs \in PresetRecordArrays
                \cup {<<Rec("A", [y \in {DefaultYear} |-> 1], Num(1)),
                        Rec("B", [y \in {DefaultYear} |-> 1], Num(3)),
                        Rec("A", [y \in {DefaultYear} |-> 1], Num(1))>>}}
    \cup {Dataset("noMatrix", <<>>, ExampleAllGeographies, ExampleSegments),
          NullDataset}

\* the caller starts a builder
Invoke(id) ==
    /\ invocations[id].pc = "idle"
    /\ \E b \in BuilderFns :
        invocations' = [invocations EXCEPT ![id] =
                            [NoLocals EXCEPT !.builder = b, !.pc = "guards"]]
    /\ UNCHANGED <<data, fn, args, ret, history, outcome, page>>

\* if (!data) return {...}; then the guards of the ranking function
Guards(id) ==
    /\ invocations[id].pc = "guards"
    /\ LET inv == invocations[id]
       IN invocations' = [invocations EXCEPT ![id] =
              IF data.isNull
              THEN [inv EXCEPT !.pc = "done",
                               !.result = <<PresetOfNull(inv.builder)>>]
              ELSE IF ~HasRecords(data)
              THEN [inv EXCEPT !.pc = "build", !.ranked = <<>>]
              ELSE [inv EXCEPT !.pc = "forEach", !.index = 1]]
    /\ UNCHANGED <<data, fn, args, ret, history, outcome, page>>

\* one pass of records.forEach
ForEach(id) ==
    /\ invocations[id].pc = "forEach"
    /\ LET inv == invocations[id]
           record == data.records[inv.index]
           more == inv.index < Len(data.records)
       IN invocations' = [invocations EXCEPT ![id] =
              [inv EXCEPT
                 !.geographyTotals =
                     IF inv.builder = "createTopMarketFilters"
                     THEN geographyTotalsAfter(geographyTotalsOf(invocations, id),
                                            record, 2024)
                     ELSE @,
                 !.geographyCAGRs =
                     IF inv.builder # "createTopMarketFilters"
                     THEN geographyCAGRsAfter(geographyCAGRsOf(invocations, id),
                                              record)
                     ELSE @,
                 !.index = IF more THEN @ + 1 ELSE @,
                 !.pc = IF more THEN "forEach" ELSE "rank"]]
    /\ UNCHANGED <<data, fn, args, ret, history, outcome, page>>

\* sort, slice and map; the ranking function returns
Rank(id) ==
    /\ invocations[id].pc = "rank"
    /\ LET inv == invocations[id]
       IN invocations' = [invocations EXCEPT ![id] =
              [inv EXCEPT !.pc = "build",
                          !.ranked = RankedFromLocals(inv.builder,
                                         geographyTotalsOf(invocations, id),
                                         geographyCAGRsOf(invocations, id))]]
    /\ UNCHANGED <<data, fn, args, ret, history, outcome, page>>

\* the rest of the builder: segment type, segments, fallbacks, the result
Build(id) ==
    /\ invocations[id].pc = "build"
    /\ LET inv == invocations[id]
       IN invocations' = [invocations EXCEPT ![id] =
              [inv EXCEPT !.pc = "done",
                          !.result = <<PresetFromRanked(inv.builder, data,
                                                        inv.ranked)>>]]
    /\ UNCHANGED <<data, fn, args, ret, history, outcome, page>>

\* the caller takes the result; the locals are gone
ReturnInvocation(id) ==
    /\ invocations[id].pc = "done"
    /\ invocations' = [invocations EXCEPT ![id] = NoLocals]
    /\ UNCHANGED <<data, fn, args, ret, history, outcome, page>>

InitInterleaved ==
    /\ data \in InterleavedDatasets
    /\ Idle
    /\ history = NoHistory
    /\ invocations = NoInvocations
    /\ page = ExamplePage

NextInterleaved ==
    \/ \E id \in InvocationIds : Invoke(id)
    \/ \E id \in InvocationIds : Guards(id)
    \/ \E id \in InvocationIds : ForEach(id)
    \/ \E id \in InvocationIds : Rank(id)
    \/ \E id \in InvocationIds : Build(id)
    \/ \E id \in InvocationIds : ReturnInvocation(id)

SpecInterleaved == InitInterleaved /\ [][NextInterleaved]_vars

(***************************************************************************)
(* DashboardPage: renders, effects, store updates and clicks.  React runs  *)
(* the effects of a render before it handles the next event, and applies   *)
(* the state updates of one handler, or of one pass of effects, together.  *)
(***************************************************************************)
DatasetStates == {"null", "noRows", "rows"}

Stores ==
    {[data |-> d, rawIntelligenceData |-> raw,
      customerIntelligenceData |-> customer, distributorIntelligenceData |-> FALSE,
      proposition2Data |-> p2, proposition3Data |-> p3,
      selectedChartGroup |-> group, filtersViewMode |-> "geography-mode"] :
        d \in BOOLEAN, raw \in DatasetStates, customer \in BOOLEAN,
        p2 \in {"null", "rows"}, p3 \in {"null", "rows"}, group \in ChartGroups}

\* the chart lists @/lib/chart-groups may hold
ChartGroupTables ==
    {[ExampleChartGroups EXCEPT !["market-analysis"] = charts] :
        charts \in {<<"grouped-bar", "multi-line", "heatmap">>,
                     <<CUSTOMER_INTELLIGENCE, "grouped-bar">>,
                     <<"unlisted-chart", "grouped-bar">>,
                     <<>>}}

\* the state an event leaves: the observers start over
AfterEvent(p) ==
    [p EXCEPT !.clicked = "none", !.groupChanges = 0,
              !.groupAtEvent = p.selectedChartGroup]

\* one pass of effects: those that are due run in the order they are
\* declared, each over the values of the render
RunEffects ==
    /\ ~EffectsSettled(page)
    /\ LET r == page
           s1 == IF EffectDue(r, "proposition")
                 THEN DefaultPropositionTabEffect(r, r) ELSE r
           s2 == IF EffectDue(r, "chartGroup")
                 THEN ChartGroupAutoSwitchEffect(r, s1) ELSE s1
           s3 == IF EffectDue(r, "tab") THEN TabAutoSwitchEffect(r, s2) ELSE s2
           s4 == IF EffectDue(r, "heatmap") THEN MatrixHeatmapEffect(r, s3) ELSE s3
       IN page' = [s4 EXCEPT
                      !.mounted = TRUE,
                      !.seen = DepsOf(r),
                      !.loading = IF r.mounted THEN r.loading ELSE ~r.data,
                      !.groupChanges =
                          IF s4.selectedChartGroup # r.selectedChartGroup
                          THEN Min(r.groupChanges + 1, 2) ELSE r.groupChanges]
    /\ UNCHANGED engineVars

\* loadData of the mount effect: the fetched data, or the mock data, is set
LoadData ==
    /\ EffectsSettled(page)
    /\ page.loading
    /\ page' = AfterEvent([page EXCEPT !.data = TRUE, !.loading = FALSE])
    /\ UNCHANGED engineVars

\* another writer of the store replaces one of the datasets
StoreUpdate ==
    /\ EffectsSettled(page)
    /\ \/ \E v \in BOOLEAN :
              page' = AfterEvent([page EXCEPT !.data = v, !.loading = FALSE])
       \/ \E v \in DatasetStates :
              page' = AfterEvent([page EXCEPT !.rawIntelligenceData = v])
       \/ \E v \in BOOLEAN :
              page' = AfterEvent([page EXCEPT !.customerIntelligenceData = v])
       \/ \E v \in {"null", "rows"} :
              page' = AfterEvent([page EXCEPT !.proposition2Data = v])
       \/ \E v \in {"null", "rows"} :
              page' = AfterEvent([page EXCEPT !.proposition3Data = v])
    /\ UNCHANGED engineVars

\* the sidebar is there with market data and while it is not collapsed
SidebarShown(p) == ~p.loading /\ hasMarketData(p) /\ ~p.sidebarCollapsed

\* ChartGroupSelector in the sidebar
SelectChartGroup ==
    /\ EffectsSettled(page)
    /\ SidebarShown(page)
    /\ \E group \in ChartGroups :
          page' = AfterEvent(setSelectedChartGroup(page, group))
    /\ UNCHANGED engineVars

\* the filter panel in the sidebar changes filters.viewMode
SetFiltersViewMode ==
    /\ EffectsSettled(page)
    /\ SidebarShown(page)
    /\ \E v \in {"geography-mode", "matrix"} :
          page' = AfterEvent([page EXCEPT !.filtersViewMode = v])
    /\ UNCHANGED engineVars

\* the tab navigation is rendered
TabButtonShown(p, t) ==
    /\ ~p.loading
    /\ hasMarketData(p) \/ hasIntelligenceData(p)
    /\ p.viewMode = "tabs" \/ ~hasMarketData(p)
    /\ IF t = CUSTOMER_INTELLIGENCE
       THEN hasIntelligenceData(p) /\ isChartVisible(p, CUSTOMER_INTELLIGENCE)
       ELSE hasMarketData(p) /\ isChartVisible(p, ChartOfTab(t))

\* onClick={() => setActiveTab(t)}
ClickTab ==
    /\ EffectsSettled(page)
    /\ \E t \in Tabs :
        /\ TabButtonShown(page, t)
        /\ page' = [AfterEvent(page) EXCEPT !.activeTab = t, !.clicked = t]
    /\ UNCHANGED engineVars

\* onClick={() => setViewMode('tabs')} and its 'vertical' twin
SetViewMode ==
    /\ EffectsSettled(page)
    /\ ~page.loading
    /\ hasMarketData(page)
    /\ \E v \in {"tabs", "vertical"} :
          page' = AfterEvent([page EXCEPT !.viewMode = v])
    /\ UNCHANGED engineVars

PropositionButtonShown(p, tab) ==
    /\ ~p.loading
    /\ p.viewMode = "tabs"
    /\ hasIntelligenceData(p)
    /\ p.activeTab = CUSTOMER_INTELLIGENCE
    /\ isChartVisible(p, CUSTOMER_INTELLIGENCE)
    /\ \/ tab = "prop1" /\ hasProp1(p)
       \/ tab = "prop2" /\ hasProp2(p)
       \/ tab = "prop3" /\ hasProp3(p)

\* onClick={() => setActivePropositionTab(tab)}
ClickPropositionTab ==
    /\ EffectsSettled(page)
    /\ \E tab \in PropositionTabs :
        /\ PropositionButtonShown(page, tab)
        /\ page' = AfterEvent([page EXCEPT !.activePropositionTab = tab])
    /\ UNCHANGED engineVars

\* faulty variant of ExpandFiltersClicked: the insights flag is left alone
ExpandFiltersClicked_SidebarOnly(p) == [p EXCEPT !.sidebarCollapsed = FALSE]

\* setShowInsights(false); setSidebarCollapsed(false)
ExpandFiltersClicked(p) ==
    [p EXCEPT !.showInsights = FALSE, !.sidebarCollapsed = FALSE]

\* setShowInsights(!showInsights); setSidebarCollapsed(!showInsights)
InsightsClicked(p) ==
    [p EXCEPT !.showInsights = ~p.showInsights, !.sidebarCollapsed = ~p.showInsights]

\* setShowInsights(false); setSidebarCollapsed(false)
InsightsCloseClicked(p) ==
    [p EXCEPT !.showInsights = FALSE, !.sidebarCollapsed = FALSE]

\* the 'Expand Filters' button of the collapsed sidebar
ExpandFilters ==
    /\ EffectsSettled(page)
    /\ ~page.loading /\ hasMarketData(page) /\ page.sidebarCollapsed
    /\ page' = AfterEvent(ExpandFiltersClicked(page))
    /\ UNCHANGED engineVars

\* the Insights button
ToggleInsights ==
    /\ EffectsSettled(page)
    /\ ~page.loading /\ hasMarketData(page)
    /\ page' = AfterEvent(InsightsClicked(page))
    /\ UNCHANGED engineVars

\* the close button of the insights panel
CloseInsights ==
    /\ EffectsSettled(page)
    /\ ~page.loading /\ hasMarketData(page) /\ page.showInsights
    /\ page' = AfterEvent(InsightsCloseClicked(page))
    /\ UNCHANGED engineVars

InitPage ==
    /\ data = NullDataset
    /\ Idle
    /\ history = NoHistory
    /\ invocations = NoInvocations
    /\ \E store \in Stores, chartGroups \in ChartGroupTables :
          page = InitialPage(store, chartGroups)

NextPage ==
    \/ RunEffects
    \/ LoadData
    \/ StoreUpdate
    \/ SelectChartGroup
    \/ SetFiltersViewMode
    \/ ClickTab
    \/ SetViewMode
    \/ ClickPropositionTab
    \/ ExpandFilters
    \/ ToggleInsights
    \/ CloseInsights

SpecPage == InitPage /\ [][NextPage]_vars

\* React runs the effects of every render it commits
SpecPageFair == SpecPage /\ WF_vars(RunEffects)

(***************************************************************************)
(* Vocabulary of the properties, defined from the dataset alone.           *)
(***************************************************************************)
RankingFns == {"getTopRegionsByMarketValue", "getTopRegionsByCAGR", "getTopCountriesByCAGR"}

CagrFns == {"getTopRegionsByCAGR", "getTopCountriesByCAGR"}

\* the records of the matrix; none when the dataset or the matrix is missing
MatrixRecords(d) == IF d.isNull \/ d.matrixPath # "array" THEN <<>> ELSE d.records

RecordIndices(d, g) ==
    {i \in 1..Len(MatrixRecords(d)) : MatrixRecords(d)[i].geography = g}

ValidCagrIndices(d, g) ==
    {i \in RecordIndices(d, g) : MatrixRecords(d)[i].cagr.kind = "number"}

\* the non-Global geography names that have at least one record
RecordedGeographies(d) ==
    {MatrixRecords(d)[i].geography : i \in 1..Len(MatrixRecords(d))} \ {GLOBAL}

\* the non-Global geography names that have at least one valid cagr
CagrGeographies(d) == {g \in RecordedGeographies(d) : ValidCagrIndices(d, g) # {}}

RECURSIVE SumOver(_, _)
SumOver(S, f) ==
    IF S = {} THEN 0
    ELSE LET x == CHOOSE y \in S : TRUE IN f[x] + SumOver(S \ {x}, f)

\* sum of time_series[year] over all records of geography g
TotalOf(d, g, year) ==
    SumOver(RecordIndices(d, g),
            [i \in RecordIndices(d, g) |->
                IF year \in DOMAIN MatrixRecords(d)[i].time_series
                THEN MatrixRecords(d)[i].time_series[year] ELSE 0])

CagrSumOf(d, g) ==
    SumOver(ValidCagrIndices(d, g),
            [i \in ValidCagrIndices(d, g) |-> MatrixRecords(d)[i].cagr.val])

\* mean cagr of g >= mean cagr of h, for g and h in CagrGeographies(d)
MeanCagrGE(d, g, h) ==
    CagrSumOf(d, g) * Cardinality(ValidCagrIndices(d, h))
        >= CagrSumOf(d, h) * Cardinality(ValidCagrIndices(d, g))

MeanCagrEqual(d, g, h) == MeanCagrGE(d, g, h) /\ MeanCagrGE(d, h, g)

SetMin(S) == CHOOSE x \in S : \A y \in S : x <= y

FirstRecordIndex(d, g) == SetMin(RecordIndices(d, g))

FirstValidCagrIndex(d, g) == SetMin(ValidCagrIndices(d, g))

NoDuplicates(q) == \A i, j \in 1..Len(q) : i # j => q[i] # q[j]

(***************************************************************************)
(* C1  No ranking function returns "Global", whatever the value or the     *)
(* cagr of the Global records.                                             *)
(***************************************************************************)
C1_NoGlobalInRanking == fn \in RankingFns => GLOBAL \notin Range(ret)

\* a ranking by value was returned non-empty although Global has the
\* largest total of all geographies
C1_Witness ==
    /\ fn = "getTopRegionsByMarketValue"
    /\ ret # <<>>
    /\ RecordIndices(data, GLOBAL) # {}
    /\ \A g \in RecordedGeographies(data) :
          TotalOf(data, GLOBAL, args.year) > TotalOf(data, g, args.year)

(***************************************************************************)
(* C2  getTopRegionsByMarketValue ranks by the per-geography total, summed  *)
(* over all records of the geography: the result is in non-increasing      *)
(* order of total and no geography left out has a larger total than one    *)
(* returned.                                                               *)
(***************************************************************************)
C2_RankedByTotal ==
    fn = "getTopRegionsByMarketValue" =>
        /\ \A i, j \in 1..Len(ret) :
              i < j => TotalOf(data, ret[i], args.year) >= TotalOf(data, ret[j], args.year)
        /\ \A g \in Range(ret) : \A h \in RecordedGeographies(data) \ Range(ret) :
              TotalOf(data, g, args.year) >= TotalOf(data, h, args.year)

\* the returned geography wins only by the sum of its several records over a
\* geography that was seen first and is left out
C2_Witness ==
    /\ fn = "getTopRegionsByMarketValue"
    /\ Len(ret) = 1
    /\ Cardinality(RecordIndices(data, ret[1])) >= 2
    /\ \E h \in RecordedGeographies(data) \ Range(ret) :
          /\ FirstRecordIndex(data, h) < FirstRecordIndex(data, ret[1])
          /\ TotalOf(data, h, args.year) > 0
          /\ TotalOf(data, h, args.year) < TotalOf(data, ret[1], args.year)
          /\ \A i \in RecordIndices(data, ret[1]) :
                TimeSeriesValueOrZero(data.records[i], args.year)
                    <= TotalOf(data, h, args.year)

(***************************************************************************)
(* C3  Ties keep first-seen order.  As claimed: of two geographies with    *)
(* equal metric, the one whose first record is earlier in the matrix comes *)
(* first, and is the one kept when truncation cuts between them, in the    *)
(* value ranking and in the CAGR rankings alike.                           *)
(***************************************************************************)
C3_TiesByFirstRecord ==
    /\ fn = "getTopRegionsByMarketValue" =>
          /\ \A i, j \in 1..Len(ret) :
                (i < j /\ TotalOf(data, ret[i], args.year) = TotalOf(data, ret[j], args.year))
                    => FirstRecordIndex(data, ret[i]) < FirstRecordIndex(data, ret[j])
          /\ \A g \in Range(ret) : \A h \in RecordedGeographies(data) \ Range(ret) :
                TotalOf(data, g, args.year) = TotalOf(data, h, args.year)
                    => FirstRecordIndex(data, g) < FirstRecordIndex(data, h)
    /\ fn \in CagrFns =>
          /\ \A i, j \in 1..Len(ret) :
                (i < j /\ MeanCagrEqual(data, ret[i], ret[j]))
                    => FirstRecordIndex(data, ret[i]) < FirstRecordIndex(data, ret[j])
          /\ \A g \in Range(ret) : \A h \in CagrGeographies(data) \ Range(ret) :
                MeanCagrEqual(data, g, h)
                    => FirstRecordIndex(data, g) < FirstRecordIndex(data, h)

(***************************************************************************)
(* C3 amended  In the value ranking ties are ordered by first record; in   *)
(* the CAGR rankings they are ordered by the first record that carries a   *)
(* valid cagr.  Truncation keeps the earlier one in that order.            *)
(***************************************************************************)
C3_TiesByFirstGrouping ==
    /\ fn = "getTopRegionsByMarketValue" =>
          /\ \A i, j \in 1..Len(ret) :
                (i < j /\ TotalOf(data, ret[i], args.year) = TotalOf(data, ret[j], args.year))
                    => FirstRecordIndex(data, ret[i]) < FirstRecordIndex(data, ret[j])
          /\ \A g \in Range(ret) : \A h \in RecordedGeographies(data) \ Range(ret) :
                TotalOf(data, g, args.year) = TotalOf(data, h, args.year)
                    => FirstRecordIndex(data, g) < FirstRecordIndex(data, h)
    /\ fn \in CagrFns =>
          /\ \A i, j \in 1..Len(ret) :
                (i < j /\ MeanCagrEqual(data, ret[i], ret[j]))
                    => FirstValidCagrIndex(data, ret[i]) < FirstValidCagrIndex(data, ret[j])
          /\ \A g \in Range(ret) : \A h \in CagrGeographies(data) \ Range(ret) :
                MeanCagrEqual(data, g, h)
                    => FirstValidCagrIndex(data, g) < FirstValidCagrIndex(data, h)

\* a CAGR ranking cut between two tied geographies kept the one whose first
\* valid cagr is earlier, although the other one has the earlier first record
C3_Witness ==
    /\ fn \in CagrFns
    /\ Len(ret) = 1
    /\ \E h \in CagrGeographies(data) \ Range(ret) :
          /\ MeanCagrEqual(data, ret[1], h)
          /\ FirstRecordIndex(data, h) < FirstRecordIndex(data, ret[1])
          /\ FirstValidCagrIndex(data, ret[1]) < FirstValidCagrIndex(data, h)

(***************************************************************************)
(* C4  getTopRegionsByMarketValue returns a duplicate-free sequence of     *)
(* length min(topN, number of non-Global geographies with a record).       *)
(***************************************************************************)
C4_LengthIsMin ==
    fn = "getTopRegionsByMarketValue" =>
        /\ NoDuplicates(ret)
        /\ Len(ret) = Min(args.topN, Cardinality(RecordedGeographies(data)))

\* truncation happened: more geographies than topN, topN of them returned
C4_Witness ==
    /\ fn = "getTopRegionsByMarketValue"
    /\ args.topN > 0
    /\ Cardinality(RecordedGeographies(data)) > args.topN
    /\ Len(ret) = args.topN

(***************************************************************************)
(* C5  A geography none of whose records has a valid cagr (absent, null or *)
(* NaN) is never returned by the CAGR rankings.                            *)
(***************************************************************************)
C5_NoCagrNotRanked ==
    fn \in CagrFns => \A g \in Range(ret) : ValidCagrIndices(data, g) # {}

\* every record of some geography has an invalid cagr, every returned
\* geography has a negative mean, and there was room left in the result
C5_Witness ==
    /\ fn \in CagrFns
    /\ ret # <<>>
    /\ Len(ret) < args.topN
    /\ \A g \in Range(ret) : CagrSumOf(data, g) < 0
    /\ \E h \in RecordedGeographies(data) :
          /\ ValidCagrIndices(data, h) = {}
          /\ {MatrixRecords(data)[i].cagr.kind : i \in RecordIndices(data, h)}
                = {"undefined", "NaN"}

(***************************************************************************)
(* C6  getTopRegionsByCAGR returns the non-Global geographies with a valid *)
(* cagr in non-increasing order of the mean of their valid cagr values,    *)
(* cut to min(topN, number of them); with A averaging 5, B averaging 9 and *)
(* C without cagr, topN = 2 gives [B, A].                                  *)
(***************************************************************************)
C6_RankedByMeanCagr ==
    fn = "getTopRegionsByCAGR" =>
        /\ Range(ret) \subseteq CagrGeographies(data)
        /\ NoDuplicates(ret)
        /\ Len(ret) = Min(args.topN, Cardinality(CagrGeographies(data)))
        /\ \A i, j \in 1..Len(ret) : i < j => MeanCagrGE(data, ret[i], ret[j])
        /\ \A g \in Range(ret) : \A h \in CagrGeographies(data) \ Range(ret) :
              MeanCagrGE(data, g, h)
        /\ (MatrixRecords(data) = GrowthLeadersRecords /\ args.topN = 2)
              => ret = <<"B", "A">>

\* the example of the claim was computed
C6_Witness ==
    /\ fn = "getTopRegionsByCAGR"
    /\ MatrixRecords(data) = GrowthLeadersRecords
    /\ args.topN = 2
    /\ ret = <<"B", "A">>

(***************************************************************************)
(* Vocabulary of the hierarchy properties, defined from the dataset alone. *)
(***************************************************************************)
HasSegmentType(d, t) == ~d.isNull /\ \E i \in 1..Len(d.segments) : d.segments[i].key = t

DimensionOf(d, t) ==
    d.segments[CHOOSE i \in 1..Len(d.segments) : d.segments[i].key = t].val

ParentKeys(dim) ==
    IF dim.hasHierarchy THEN {dim.hierarchy[i].key : i \in 1..Len(dim.hierarchy)} ELSE {}

ChildrenOfParent(dim, p) ==
    IF dim.hasHierarchy
    THEN {c \in DOMAIN CodeUnits :
            \E i \in 1..Len(dim.hierarchy) :
                /\ dim.hierarchy[i].key = p
                /\ \E k \in 1..Len(dim.hierarchy[i].val) : dim.hierarchy[i].val[k] = c}
    ELSE {}

\* the segments listed as a child under some parent
ListedChildren(dim) == UNION {ChildrenOfParent(dim, p) : p \in ParentKeys(dim)}

ItemSet(dim) == IF dim.hasItems THEN {dim.items[i] : i \in 1..Len(dim.items)} ELSE {}

ItemSeq(dim) == IF dim.hasItems THEN dim.items ELSE <<>>

\* x precedes y in lexicographic order of code units
LexLess(x, y) ==
    LET cx == CodeUnits[x]
        cy == CodeUnits[y]
    IN \E k \in 1..Len(cy) :
          /\ \A m \in 1..(k - 1) : m <= Len(cx) /\ cx[m] = cy[m]
          /\ (k > Len(cx) \/ cx[k] < cy[k])

(***************************************************************************)
(* C7  For a segment type of the dataset, s is returned by                 *)
(* getFirstLevelSegments exactly when (a) s is a key of hierarchy and not  *)
(* a listed child, or (b) s is an item, not a key and not a listed child;  *)
(* for every hierarchy, keys with an empty child list included.            *)
(***************************************************************************)
C7_FirstLevelExactly ==
    (fn = "getFirstLevelSegments" /\ HasSegmentType(data, args.segmentType)) =>
        LET dim == DimensionOf(data, args.segmentType)
        IN \A s \in DOMAIN CodeUnits :
              s \in Range(ret) <=>
                  \/ s \in ParentKeys(dim) /\ s \notin ListedChildren(dim)
                  \/ /\ s \in ItemSet(dim)
                     /\ s \notin ParentKeys(dim)
                     /\ s \notin ListedChildren(dim)

(***************************************************************************)
(* C8  No segment listed as a child of any parent is returned by           *)
(* getFirstLevelSegments, however many parents list it and whether or not  *)
(* it is a parent key itself.                                              *)
(***************************************************************************)
C8_NoChildReturned ==
    (fn = "getFirstLevelSegments" /\ HasSegmentType(data, args.segmentType)) =>
        \A s \in Range(ret) : s \notin ListedChildren(DimensionOf(data, args.segmentType))

\* two parents list each other, both are items, neither is returned while
\* another item is
C8_Witness ==
    /\ fn = "getFirstLevelSegments"
    /\ HasSegmentType(data, args.segmentType)
    /\ ret # <<>>
    /\ LET dim == DimensionOf(data, args.segmentType)
       IN \E p, q \in ParentKeys(dim) \cap ItemSet(dim) :
             /\ p # q
             /\ q \in ChildrenOfParent(dim, p)
             /\ p \in ChildrenOfParent(dim, q)
             /\ p \notin Range(ret)
             /\ q \notin Range(ret)

(***************************************************************************)
(* C9  The result of getFirstLevelSegments is in ascending lexicographic   *)
(* order, parents and standalone items interleaved by name; with           *)
(* items = [X, Y, Z, W] and hierarchy = {X: [Y, Z]} it is [W, X].          *)
(***************************************************************************)
C9_SortedAscending ==
    fn = "getFirstLevelSegments" =>
        /\ \A i, j \in 1..Len(ret) : i < j => ~LexLess(ret[j], ret[i])
        /\ (HasSegmentType(data, args.segmentType)
            /\ DimensionOf(data, args.segmentType) = ExampleSegmentDimension)
              => ret = <<"W", "X">>

\* the example of the claim was computed: the standalone item W precedes
\* the parent X
C9_Witness ==
    /\ fn = "getFirstLevelSegments"
    /\ HasSegmentType(data, args.segmentType)
    /\ DimensionOf(data, args.segmentType) = ExampleSegmentDimension
    /\ ret = <<"W", "X">>

(***************************************************************************)
(* C10  For the null dataset createTopMarketFilters returns exactly        *)
(* viewMode = "geography-mode", yearRange = [2024, 2028], dataType =       *)
(* "value"; createGrowthLeadersFilters and createEmergingMarketsFilters    *)
(* return the same three fields with yearRange = [2024, 2032].             *)
(***************************************************************************)
C10_NullDatasetMinimal ==
    /\ (fn = "createTopMarketFilters" /\ data.isNull) =>
          /\ DOMAIN ret = {"viewMode", "yearRange", "dataType"}
          /\ ret.viewMode = "geography-mode"
          /\ ret.yearRange = <<2024, 2028>>
          /\ ret.dataType = "value"
    /\ (fn \in {"createGrowthLeadersFilters", "createEmergingMarketsFilters"}
        /\ data.isNull) =>
          /\ DOMAIN ret = {"viewMode", "yearRange", "dataType"}
          /\ ret.viewMode = "geography-mode"
          /\ ret.yearRange = <<2024, 2032>>
          /\ ret.dataType = "value"

\* the Top Market builder was called with the null dataset
C10_Witness ==
    /\ fn = "createTopMarketFilters"
    /\ data.isNull
    /\ ret.yearRange = <<2024, 2028>>

(***************************************************************************)
(* Vocabulary of the preset properties, defined from the dataset alone.    *)
(***************************************************************************)
\* a builder was called with a dataset
BuiltFromDataset == fn \in BuilderFns /\ ~data.isNull

\* the number of geographies the preset asks for
TargetCount(builder) ==
    CASE builder = "createTopMarketFilters" -> 3
      [] builder = "createGrowthLeadersFilters" -> 2
      [] builder = "createEmergingMarketsFilters" -> 5

\* the ranking the preset is derived from
RankingOf(builder, d) ==
    CASE builder = "createTopMarketFilters" -> getTopRegionsByMarketValue(d, 2024, 3)
      [] builder = "createGrowthLeadersFilters" -> getTopRegionsByCAGR(d, 2)
      [] builder = "createEmergingMarketsFilters" -> getTopCountriesByCAGR(d, 5)

NonGlobalIndices(list) == {i \in 1..Len(list) : list[i] # GLOBAL}

\* the k-th smallest element of a set of integers
KthSmallest(S, k) == CHOOSE i \in S : Cardinality({j \in S : j < i}) = k - 1

\* the first n entries of list that are not 'Global', in listed order
FirstNonGlobalEntries(list, n) ==
    [k \in 1..Min(n, Cardinality(NonGlobalIndices(list))) |->
        list[KthSmallest(NonGlobalIndices(list), k)]]

(***************************************************************************)
(* C11  For every non-null dataset each builder returns viewMode =         *)
(* "geography-mode" and dataType = "value", with yearRange = [2024, 2028]  *)
(* for Top Market and [2024, 2032] for Growth Leaders and Emerging         *)
(* Markets, whatever the dataset holds and whether or not a fallback was   *)
(* taken.                                                                  *)
(***************************************************************************)
C11_FixedPolicyFields ==
    BuiltFromDataset =>
        /\ ret.viewMode = "geography-mode"
        /\ ret.dataType = "value"
        /\ ret.yearRange = IF fn = "createTopMarketFilters"
                           THEN <<2024, 2028>> ELSE <<2024, 2032>>

\* the Growth Leaders builder took the geography fallback and the segment
\* fallback
C11_Witness ==
    /\ fn = "createGrowthLeadersFilters"
    /\ ~data.isNull
    /\ RankingOf(fn, data) = <<>>
    /\ ret.geographies # <<>>
    /\ getFirstSegmentType(data) # <<>>
    /\ getFirstLevelSegments(data, getFirstSegmentType(data)[1]) = <<>>
    /\ ret.segments # <<>>
    /\ ret.yearRange = <<2024, 2032>>

(***************************************************************************)
(* C12  For a non-null dataset whose ranking is non-empty the geographies  *)
(* field is the ranking result itself: getTopRegionsByMarketValue(data,    *)
(* 2024, 3) for Top Market, getTopRegionsByCAGR(data, 2) for Growth        *)
(* Leaders, getTopCountriesByCAGR(data, 5) for Emerging Markets; a ranking *)
(* shorter than the target count is not filled up from all_geographies.    *)
(***************************************************************************)
C12_GeographiesAreRanking ==
    (BuiltFromDataset /\ RankingOf(fn, data) # <<>>) =>
        ret.geographies = RankingOf(fn, data)

\* the ranking is shorter than the target count while all_geographies lists
\* a geography the ranking does not hold
C12_Witness ==
    /\ BuiltFromDataset
    /\ RankingOf(fn, data) # <<>>
    /\ Len(RankingOf(fn, data)) < TargetCount(fn)
    /\ data.all_geographies.present
    /\ \E g \in Range(data.all_geographies.list) :
          g # GLOBAL /\ g \notin Range(RankingOf(fn, data))
    /\ Len(ret.geographies) < TargetCount(fn)

(***************************************************************************)
(* C13  When the ranking of a preset is empty and all_geographies is       *)
(* present, the geographies field is the first N entries of                *)
(* all_geographies other than "Global", in listed order, N = 3 for Top     *)
(* Market, 2 for Growth Leaders, 5 for Emerging Markets (fewer when fewer  *)
(* exist).                                                                 *)
(***************************************************************************)
C13_FallbackIsFirstNonGlobal ==
    (BuiltFromDataset /\ RankingOf(fn, data) = <<>> /\ data.all_geographies.present) =>
        ret.geographies =
            FirstNonGlobalEntries(data.all_geographies.list, TargetCount(fn))

\* the fallback cut a list that holds "Global" among its first N entries and
\* more than N other names
C13_Witness ==
    /\ BuiltFromDataset
    /\ RankingOf(fn, data) = <<>>
    /\ data.all_geographies.present
    /\ Cardinality(NonGlobalIndices(data.all_geographies.list)) > TargetCount(fn)
    /\ \E i \in 1..TargetCount(fn) : data.all_geographies.list[i] = GLOBAL
    /\ Len(ret.geographies) = TargetCount(fn)

(***************************************************************************)
(* C14  As claimed: given a dataset with all_geographies = [Global, A, B,  *)
(* C, D] in which no record carries a value for year 2024,                 *)
(* getTopRegionsByMarketValue(data, 2024, 3) returns the empty sequence    *)
(* and createTopMarketFilters returns geographies = [A, B, C].             *)
(***************************************************************************)
NoValueFor(d, year) ==
    \A i \in 1..Len(MatrixRecords(d)) : year \notin DOMAIN MatrixRecords(d)[i].time_series

C14_NoValueMeansEmpty ==
    (~data.isNull /\ data.all_geographies = ExampleAllGeographies
     /\ NoValueFor(data, 2024)) =>
        /\ (fn = "getTopRegionsByMarketValue" /\ args.year = 2024 /\ args.topN = 3)
              => ret = <<>>
        /\ fn = "createTopMarketFilters" => ret.geographies = <<"A", "B", "C">>

(***************************************************************************)
(* C14 amended  Given a dataset with all_geographies = [Global, A, B, C,   *)
(* D] whose matrix holds no record of a geography other than "Global" (it  *)
(* is absent, empty, or holds Global records only),                        *)
(* getTopRegionsByMarketValue(data, 2024, 3) returns the empty sequence    *)
(* and createTopMarketFilters returns geographies = [A, B, C].             *)
(***************************************************************************)
C14_NoRecordedGeographyMeansEmpty ==
    (~data.isNull /\ data.all_geographies = ExampleAllGeographies
     /\ RecordedGeographies(data) = {}) =>
        /\ (fn = "getTopRegionsByMarketValue" /\ args.year = 2024 /\ args.topN = 3)
              => ret = <<>>
        /\ fn = "createTopMarketFilters" => ret.geographies = <<"A", "B", "C">>

\* the matrix holds Global records only and the Top Market builder fell back
\* to the listed geographies
C14_Witness ==
    /\ fn = "createTopMarketFilters"
    /\ ~data.isNull
    /\ data.all_geographies = ExampleAllGeographies
    /\ MatrixRecords(data) # <<>>
    /\ RecordedGeographies(data) = {}
    /\ ret.geographies = <<"A", "B", "C">>

(***************************************************************************)
(* C15  In every builder, when a first segment type exists: if             *)
(* getFirstLevelSegments returns an empty list for it, the segments field  *)
(* is the first 3 entries of the raw items list of that type in their      *)
(* original order; otherwise the segments field is the result of           *)
(* getFirstLevelSegments, unchanged and untruncated.                       *)
(***************************************************************************)
\* a first key of dimensions.segments exists
HasFirstSegmentType(d) == ~d.isNull /\ d.segments # <<>>

FirstSegmentTypeKey(d) == d.segments[1].key

\* the first n entries of the raw items list of segment type t
FirstItems(d, t, n) ==
    LET items == ItemSeq(DimensionOf(d, t))
    IN [k \in 1..Min(n, Len(items)) |-> items[k]]

C15_SegmentsOrItemsFallback ==
    (BuiltFromDataset /\ HasFirstSegmentType(data)) =>
        LET t == FirstSegmentTypeKey(data)
        IN IF getFirstLevelSegments(data, t) = <<>>
           THEN ret.segments = FirstItems(data, t, 3)
           ELSE ret.segments = getFirstLevelSegments(data, t)

(***************************************************************************)
(* C16  For a non-null dataset whose all_geographies holds a name other    *)
(* than "Global", every builder returns a non-empty geographies list,      *)
(* whatever the matrix holds (absent, empty, Global records only, no valid *)
(* cagr).                                                                  *)
(***************************************************************************)
C16_GeographiesNotEmpty ==
    (BuiltFromDataset /\ data.all_geographies.present
     /\ NonGlobalIndices(data.all_geographies.list) # {}) =>
        ret.geographies # <<>>

\* the matrix has a record of a geography other than "Global" but no valid
\* cagr, and the Emerging Markets builder returned listed geographies
C16_Witness ==
    /\ fn = "createEmergingMarketsFilters"
    /\ ~data.isNull
    /\ RecordedGeographies(data) # {}
    /\ CagrGeographies(data) = {}
    /\ data.all_geographies.present
    /\ ret.geographies # <<>>
    /\ Range(ret.geographies) \subseteq Range(data.all_geographies.list)

(***************************************************************************)
(* C17  The geographies field returned by a builder never holds "Global",  *)
(* on the ranked path and on the fallback path, wherever "Global" sits in  *)
(* all_geographies.                                                        *)
(***************************************************************************)
C17_NoGlobalInPreset == BuiltFromDataset => GLOBAL \notin Range(ret.geographies)

\* the fallback was taken on a list that holds "Global" after its first entry
\* and within the first N
C17_Witness ==
    /\ BuiltFromDataset
    /\ RankingOf(fn, data) = <<>>
    /\ data.all_geographies.present
    /\ \E i \in 2..TargetCount(fn) :
          /\ i <= Len(data.all_geographies.list)
          /\ data.all_geographies.list[i] = GLOBAL
    /\ ret.geographies # <<>>

(***************************************************************************)
(* C18  getFirstSegmentType returns the first key of dimensions.segments   *)
(* in enumeration order, or null when there is no key or the dataset is    *)
(* null; every builder sets segmentType to that first key when it exists,  *)
(* and to "By Drug Class" with segments = [] when it does not.             *)
(***************************************************************************)
C18_FirstKeyIsSegmentType ==
    /\ fn = "getFirstSegmentType" =>
          ret = IF HasFirstSegmentType(data)
                THEN <<FirstSegmentTypeKey(data)>> ELSE <<>>
    /\ BuiltFromDataset =>
          IF HasFirstSegmentType(data)
          THEN ret.segmentType = FirstSegmentTypeKey(data)
          ELSE ret.segmentType = "By Drug Class" /\ ret.segments = <<>>

(***************************************************************************)
(* C19  No ranking function, hierarchy function or preset builder modifies *)
(* its input dataset: over any sequence of calls the matrix (order and     *)
(* contents), all_geographies and the items and hierarchy of every segment *)
(* dimension stay what they were, on the sort and fallback-slice paths     *)
(* too.                                                                    *)
(***************************************************************************)
C19_DatasetNotModified ==
    [][/\ data'.isNull = data.isNull
       /\ data'.matrixPath = data.matrixPath
       /\ data'.records = data.records
       /\ data'.all_geographies = data.all_geographies
       /\ data'.segments = data.segments]_vars

\* getFirstLevelSegments returned a sorted list whose order differs from the
\* order the same names have in the items of the dataset
C19_Witness ==
    /\ fn = "getFirstLevelSegments"
    /\ HasSegmentType(data, args.segmentType)
    /\ LET items == ItemSeq(DimensionOf(data, args.segmentType))
       IN \E i, j \in 1..Len(items) :
             /\ i < j
             /\ LexLess(items[j], items[i])
             /\ \E k, m \in 1..Len(ret) : k < m /\ ret[k] = items[j] /\ ret[m] = items[i]

(***************************************************************************)
(* C20  A builder called again with the same dataset, with any other       *)
(* engine calls in between, returns the FilterConfiguration it returned    *)
(* the first time: same fields, same lists in the same order.              *)
(***************************************************************************)
C20_SameResultAgain ==
    \A b \in BuilderFns :
        (fn = b /\ history[b].result # <<>>) => ret = history[b].result[1]

\* a builder that took the segment fallback was called again after a
\* different engine function had returned
C20_Witness ==
    /\ fn \in BuilderFns
    /\ ~data.isNull
    /\ history[fn].result # <<>>
    /\ history[fn].otherCalls
    /\ HasFirstSegmentType(data)
    /\ FirstSegmentTypeKey(data) # ""
    /\ getFirstLevelSegments(data, FirstSegmentTypeKey(data)) = <<>>
    /\ Len(ret.segments) = 3
    /\ ret = history[fn].result[1]

(***************************************************************************)
(* C21  Every engine function returns a value, and none ends in a throw,   *)
(* for every non-null dataset that lacks part of the expected shape: in    *)
(* particular getFirstSegmentType, getFirstLevelSegments and the three     *)
(* builders return normally when dimensions is absent and when             *)
(* dimensions.segments is absent.                                          *)
(***************************************************************************)
C21_NeverThrows == (fn # "none" /\ ~data.isNull) => outcome = "returned"

(***************************************************************************)
(* C22  Every name in a returned geography list is an element of           *)
(* dimensions.geographies.all_geographies, and every name in a returned    *)
(* segment list is an element of the items of the selected segment type;   *)
(* for the ranking functions, for getFirstLevelSegments and for the        *)
(* builders.                                                               *)
(***************************************************************************)
AllGeographySet(d) ==
    IF d.all_geographies.present THEN Range(d.all_geographies.list) ELSE {}

C22_NamesFromDimensions ==
    /\ (fn \in RankingFns /\ ~data.isNull) => Range(ret) \subseteq AllGeographySet(data)
    /\ (fn = "getFirstLevelSegments" /\ HasSegmentType(data, args.segmentType)) =>
          Range(ret) \subseteq ItemSet(DimensionOf(data, args.segmentType))
    /\ BuiltFromDataset =>
          /\ Range(ret.geographies) \subseteq AllGeographySet(data)
          /\ HasFirstSegmentType(data) =>
                Range(ret.segments)
                    \subseteq ItemSet(DimensionOf(data, FirstSegmentTypeKey(data)))

(***************************************************************************)
(* C23  Each of the three ranking functions returns the empty sequence     *)
(* when the dataset is null, when data, data.value or the matrix is        *)
(* absent, when the matrix is not a list, and when it is an empty list;    *)
(* the CAGR rankings also when no record of a geography other than         *)
(* "Global" has a valid cagr.                                              *)
(***************************************************************************)
C23_EmptyWhenNothingToRank ==
    fn \in RankingFns =>
        /\ (data.isNull \/ data.matrixPath \in BrokenPaths \/ data.records = <<>>)
              => ret = <<>>
        /\ (fn \in CagrFns
            /\ \A i \in 1..Len(MatrixRecords(data)) :
                  \/ MatrixRecords(data)[i].geography = GLOBAL
                  \/ MatrixRecords(data)[i].cagr.kind # "number")
              => ret = <<>>

\* a CAGR ranking asked for at least one name returned none although a
\* geography other than "Global" has records and Global has a valid cagr
C23_Witness ==
    /\ fn \in CagrFns
    /\ args.topN > 0
    /\ RecordedGeographies(data) # {}
    /\ ValidCagrIndices(data, GLOBAL) # {}
    /\ ret = <<>>

(***************************************************************************)
(* C24  getFirstLevelSegments returns the empty sequence when the dataset  *)
(* is null or segmentType is not a key of dimensions.segments; an absent   *)
(* hierarchy counts as no parents, so that every item is first-level, and  *)
(* absent items count as the empty list, so that only parents are          *)
(* returned.                                                               *)
(***************************************************************************)
C24_AbsentPartsAreEmpty ==
    fn = "getFirstLevelSegments" =>
        /\ (data.isNull \/ ~HasSegmentType(data, args.segmentType)) => ret = <<>>
        /\ HasSegmentType(data, args.segmentType) =>
              LET dim == DimensionOf(data, args.segmentType)
              IN /\ ~dim.hasHierarchy =>
                       Range(ret) = ItemSet(dim) /\ Len(ret) = Len(ItemSeq(dim))
                 /\ ~dim.hasItems =>
                       Range(ret) = {p \in ParentKeys(dim) :
                                        /\ p \notin ListedChildren(dim)
                                        /\ ChildrenOfParent(dim, p) # {}}

\* a dimension without a hierarchy gave all of its items, sorted
C24_Witness ==
    /\ fn = "getFirstLevelSegments"
    /\ HasSegmentType(data, args.segmentType)
    /\ ~DimensionOf(data, args.segmentType).hasHierarchy
    /\ DimensionOf(data, args.segmentType).hasItems
    /\ Len(ret) >= 2
    /\ Range(ret) = ItemSet(DimensionOf(data, args.segmentType))

(***************************************************************************)
(* C25  getTopRegionsByCAGR and getTopCountriesByCAGR are the same         *)
(* function: for every dataset and every topN, the default of either one   *)
(* included, they return the same sequence.                                *)
(***************************************************************************)
C25_RegionsEqualCountries ==
    /\ fn = "getTopRegionsByCAGR" => ret = getTopCountriesByCAGR(data, args.topN)
    /\ fn = "getTopCountriesByCAGR" => ret = getTopRegionsByCAGR(data, args.topN)

\* the countries ranking cut a list of tied and untied geographies while
\* Global has a valid cagr
C25_Witness ==
    /\ fn = "getTopCountriesByCAGR"
    /\ ret # <<>>
    /\ Cardinality(CagrGeographies(data)) > Len(ret)
    /\ ValidCagrIndices(data, GLOBAL) # {}
    /\ ret = getTopRegionsByCAGR(data, args.topN)

\* what builder b returns for dataset d when it runs alone
ResultAlone(b, d) ==
    IF b = "createTopMarketFilters" THEN createTopMarketFilters(d)
    ELSE IF b = "createGrowthLeadersFilters" THEN createGrowthLeadersFilters(d)
    ELSE createEmergingMarketsFilters(d)

\* C26: whatever the interleaving of the builder invocations over one
\* dataset, a finished invocation holds the configuration its builder returns
\* for that dataset when it runs alone
C26_InterleavingIsInvisible ==
    \A id \in InvocationIds :
        invocations[id].pc = "done" =>
            invocations[id].result = <<ResultAlone(invocations[id].builder, data)>>

\* an invocation has finished with geographies it ranked itself while another
\* one, of a different builder, has filled part of its own Map
C26_Witness ==
    \E id, other \in InvocationIds :
        /\ id # other
        /\ invocations[id].pc = "done"
        /\ invocations[id].ranked # <<>>
        /\ invocations[other].pc = "forEach"
        /\ invocations[other].builder # invocations[id].builder
        /\ invocations[other].geographyTotals # <<>>
               \/ invocations[other].geographyCAGRs # <<>>

\* C27: the insights flag and the collapsed-sidebar flag are equal in every
\* state of the page, so the sidebar is never collapsed without the insights
\* panel and the panel is never shown beside the expanded sidebar
C27_InsightsIffCollapsed == page.showInsights = page.sidebarCollapsed

\* the insights panel has been opened, which collapsed the sidebar
C27_Witness ==
    /\ page.showInsights
    /\ page.sidebarCollapsed
    /\ EffectsSettled(page)

\* C28: with market data and intelligence data both present and a first
\* chart of the selected group that has a tab, the active tab is the tab of
\* that first chart whenever the effects have settled, whichever tab was clicked
C28_SettlesOnFirstChartTab ==
    (/\ EffectsSettled(page)
     /\ hasMarketData(page) /\ hasIntelligenceData(page)
     /\ FirstVisibleTab(page) # <<>>)
        => page.activeTab = FirstVisibleTab(page)[1]

\* a tab other than the first chart's has been clicked, the effects have
\* settled, and the active tab is the first chart's
C28_Witness ==
    /\ EffectsSettled(page)
    /\ hasMarketData(page) /\ hasIntelligenceData(page)
    /\ FirstVisibleTab(page) # <<>>
    /\ page.clicked # "none"
    /\ page.clicked # FirstVisibleTab(page)[1]
    /\ page.activeTab = FirstVisibleTab(page)[1]

\* the dataset of the active proposition tab has rows
ActivePropositionHasRows(p) ==
    \/ p.activePropositionTab = "prop1" /\ hasProp1(p)
    \/ p.activePropositionTab = "prop2" /\ hasProp2(p)
    \/ p.activePropositionTab = "prop3" /\ hasProp3(p)

\* C29: whenever one of the three proposition datasets has rows and the
\* effects have settled, the active proposition tab is one whose dataset has
\* rows
C29_ActivePropositionHasRows ==
    (/\ EffectsSettled(page)
     /\ hasProp1(page) \/ hasProp2(page) \/ hasProp3(page))
        => ActivePropositionHasRows(page)

\* the chart-group effect has run on the values of the latest render
ChartGroupEffectSettled(p) == ~EffectDue(p, "chartGroup")

ChartGroupFixedPoint ==
    /\ page.groupChanges <= 1
    /\ ChartGroupEffectSettled(page) =>
        /\ (hasIntelligenceData(page) /\ ~hasMarketData(page))
              => page.selectedChartGroup = CUSTOMER_INTELLIGENCE
        /\ (hasMarketData(page) /\ ~hasIntelligenceData(page))
              => page.selectedChartGroup # CUSTOMER_INTELLIGENCE
        /\ (~hasMarketData(page) /\ ~hasIntelligenceData(page))
              => page.selectedChartGroup = page.groupAtEvent

\* C30: after an event the chart-group effect changes the group at most once
\* and then has nothing left to do; once it has nothing left to do: with
\* intelligence data and no market data the group is 'customer-intelligence';
\* with market data and no intelligence data it is another group; with
\* neither it is the group the event left
C30_ChartGroupSettles ==
    /\ []ChartGroupFixedPoint
    /\ (~ChartGroupEffectSettled(page)) ~> ChartGroupEffectSettled(page)

\* the effect has moved the page to 'customer-intelligence' because only
\* intelligence data is there, and has nothing left to do
C30_Witness ==
    /\ ChartGroupEffectSettled(page)
    /\ page.groupChanges = 1
    /\ hasIntelligenceData(page) /\ ~hasMarketData(page)
    /\ page.groupAtEvent # CUSTOMER_INTELLIGENCE
    /\ page.selectedChartGroup = CUSTOMER_INTELLIGENCE
====
